---- MODULE Spec2Model ----
(***************************************************************************)
(* ToolFi MCP server: chain registry, TTL cache, HTTP client base, the      *)
(* provider clients and the tool facade, as a state machine.                *)
(*                                                                          *)
(* Python strings that the code transforms (lower, upper, strip, sorting    *)
(* of parameter names) are sequences of one-character strings.  Python      *)
(* Optional values are <<>> (None) or <<v>>.  Parsed JSON bodies are        *)
(* abstract tags; the tag PyNone is Python's None.                          *)
(***************************************************************************)
EXTENDS Integers, Sequences, FiniteSets, TLC

VARIABLES now, cache, lastSet, op, tasks, _client, calls, keyIn, keyOut, yIn, yOut,
          secIn, secOut, quoteIn, quoteOut, api_key, asyncClients, chainIn, chainOut, secDoc

vars == <<now, cache, lastSet, op, tasks, _client, calls, keyIn, keyOut, yIn, yOut,
          secIn, secOut, quoteIn, quoteOut, api_key, asyncClients, chainIn, chainOut, secDoc>>

(***************************************************************************)
(* Bounds of the model                                                      *)
(***************************************************************************)
MaxTime == 90
MaxOps == 4
MaxCalls == 2
MaxToolCalls == 1
MaxParams == 2
MaxPools == 3

(***************************************************************************)
(* Text                                                                     *)
(***************************************************************************)
\* the characters used, in ASCII order
Alphabet == <<" ","-",".","/","0","1","2","3","4","5","6","7","8","9","A","B","C","D","E","F","G","H","I","J","K","L","M","N","O","P","Q","R","S","T","U","V","W","X","Y","Z","_","a","b","c","d","e","f","g","h","i","j","k","l","m","n","o","p","q","r","s","t","u","v","w","x","y","z">>

UpperLetters == <<"A","B","C","D","E","F","G","H","I","J","K","L","M","N","O","P","Q","R","S","T","U","V","W","X","Y","Z">>

LowerLetters == <<"a","b","c","d","e","f","g","h","i","j","k","l","m","n","o","p","q","r","s","t","u","v","w","x","y","z">>

Ord(c) == CHOOSE i \in DOMAIN Alphabet : Alphabet[i] = c

LowerChar(c) ==
  IF \E i \in DOMAIN UpperLetters : UpperLetters[i] = c
  THEN LowerLetters[CHOOSE i \in DOMAIN UpperLetters : UpperLetters[i] = c]
  ELSE c

UpperChar(c) ==
  IF \E i \in DOMAIN LowerLetters : LowerLetters[i] = c
  THEN UpperLetters[CHOOSE i \in DOMAIN LowerLetters : LowerLetters[i] = c]
  ELSE c

\* str.lower()
Lower(s) == [i \in DOMAIN s |-> LowerChar(s[i])]

\* str.upper()
Upper(s) == [i \in DOMAIN s |-> UpperChar(s[i])]

RECURSIVE LStrip(_)
LStrip(s) == IF s # <<>> /\ Head(s) = " " THEN LStrip(Tail(s)) ELSE s

RECURSIVE RStrip(_)
RStrip(s) == IF s # <<>> /\ s[Len(s)] = " " THEN RStrip(SubSeq(s, 1, Len(s) - 1)) ELSE s

\* str.strip()
Strip(s) == RStrip(LStrip(s))

\* s < t for Python strings (code-point order)
RECURSIVE StrLess(_, _)
StrLess(s, t) ==
  IF t = <<>> THEN FALSE
  ELSE IF s = <<>> THEN TRUE
  ELSE IF Head(s) = Head(t) THEN StrLess(Tail(s), Tail(t))
  ELSE Ord(Head(s)) < Ord(Head(t))

\* Python None as an Optional, and dict.get
None == <<>>

Some(v) == <<v>>

DictGet(d, k) == IF k \in DOMAIN d THEN Some(d[k]) ELSE None

\* bool(x) for an Optional[str]
Truthy(opt) == opt # None /\ opt[1] # <<>>

\* min(x, y)
MinOf(x, y) == IF x <= y THEN x ELSE y

(***************************************************************************)
(* Chain registry (chains.py)                                               *)
(***************************************************************************)
GOPLUS_CHAINS ==
  <<"e","t","h","e","r","e","u","m">> :> "1" @@
  <<"e","t","h">> :> "1" @@
  <<"b","s","c">> :> "56" @@
  <<"b","i","n","a","n","c","e">> :> "56" @@
  <<"p","o","l","y","g","o","n">> :> "137" @@
  <<"m","a","t","i","c">> :> "137" @@
  <<"a","r","b","i","t","r","u","m">> :> "42161" @@
  <<"a","r","b">> :> "42161" @@
  <<"b","a","s","e">> :> "8453" @@
  <<"o","p","t","i","m","i","s","m">> :> "10" @@
  <<"o","p">> :> "10" @@
  <<"a","v","a","l","a","n","c","h","e">> :> "43114" @@
  <<"a","v","a","x">> :> "43114" @@
  <<"s","o","l","a","n","a">> :> "solana" @@
  <<"s","o","l">> :> "solana" @@
  <<"l","i","n","e","a">> :> "59144" @@
  <<"z","k","s","y","n","c">> :> "324" @@
  <<"s","c","r","o","l","l">> :> "534352" @@
  <<"b","l","a","s","t">> :> "81457" @@
  <<"m","a","n","t","l","e">> :> "5000"

COINGECKO_PLATFORMS ==
  <<"e","t","h","e","r","e","u","m">> :> "ethereum" @@
  <<"e","t","h">> :> "ethereum" @@
  <<"b","s","c">> :> "binance-smart-chain" @@
  <<"b","i","n","a","n","c","e">> :> "binance-smart-chain" @@
  <<"p","o","l","y","g","o","n">> :> "polygon-pos" @@
  <<"m","a","t","i","c">> :> "polygon-pos" @@
  <<"a","r","b","i","t","r","u","m">> :> "arbitrum-one" @@
  <<"a","r","b">> :> "arbitrum-one" @@
  <<"b","a","s","e">> :> "base" @@
  <<"o","p","t","i","m","i","s","m">> :> "optimistic-ethereum" @@
  <<"o","p">> :> "optimistic-ethereum" @@
  <<"a","v","a","l","a","n","c","h","e">> :> "avalanche" @@
  <<"a","v","a","x">> :> "avalanche" @@
  <<"s","o","l","a","n","a">> :> "solana" @@
  <<"s","o","l">> :> "solana"

LIFI_CHAINS ==
  <<"e","t","h","e","r","e","u","m">> :> 1 @@
  <<"e","t","h">> :> 1 @@
  <<"a","r","b","i","t","r","u","m">> :> 42161 @@
  <<"a","r","b">> :> 42161 @@
  <<"b","a","s","e">> :> 8453 @@
  <<"p","o","l","y","g","o","n">> :> 137 @@
  <<"m","a","t","i","c">> :> 137 @@
  <<"o","p","t","i","m","i","s","m">> :> 10 @@
  <<"o","p">> :> 10 @@
  <<"b","s","c">> :> 56 @@
  <<"b","i","n","a","n","c","e">> :> 56 @@
  <<"a","v","a","l","a","n","c","h","e">> :> 43114 @@
  <<"a","v","a","x">> :> 43114

DEFILLAMA_CHAINS ==
  <<"e","t","h","e","r","e","u","m">> :> "Ethereum" @@
  <<"e","t","h">> :> "Ethereum" @@
  <<"b","s","c">> :> "BSC" @@
  <<"b","i","n","a","n","c","e">> :> "BSC" @@
  <<"p","o","l","y","g","o","n">> :> "Polygon" @@
  <<"m","a","t","i","c">> :> "Polygon" @@
  <<"a","r","b","i","t","r","u","m">> :> "Arbitrum" @@
  <<"a","r","b">> :> "Arbitrum" @@
  <<"b","a","s","e">> :> "Base" @@
  <<"o","p","t","i","m","i","s","m">> :> "Optimism" @@
  <<"o","p">> :> "Optimism" @@
  <<"a","v","a","l","a","n","c","h","e">> :> "Avalanche" @@
  <<"a","v","a","x">> :> "Avalanche" @@
  <<"s","o","l","a","n","a">> :> "Solana" @@
  <<"s","o","l">> :> "Solana"

get_goplus_chain_id(chain) == DictGet(GOPLUS_CHAINS, Lower(chain))

get_coingecko_platform(chain) == DictGet(COINGECKO_PLATFORMS, Lower(chain))

\* the lookup without lower()
get_lifi_chain_id_exact(chain) == DictGet(LIFI_CHAINS, chain)

get_lifi_chain_id(chain) == DictGet(LIFI_CHAINS, Lower(chain))

get_defillama_chain(chain) == DictGet(DEFILLAMA_CHAINS, Lower(chain))

\* the resolver and the table of a provider
resolve(provider, chain) ==
  CASE provider = "goplus" -> get_goplus_chain_id(chain)
    [] provider = "coingecko" -> get_coingecko_platform(chain)
    [] provider = "lifi" -> get_lifi_chain_id(chain)
    [] provider = "defillama" -> get_defillama_chain(chain)

ChainTable(provider) ==
  CASE provider = "goplus" -> GOPLUS_CHAINS
    [] provider = "coingecko" -> COINGECKO_PLATFORMS
    [] provider = "lifi" -> LIFI_CHAINS
    [] provider = "defillama" -> DEFILLAMA_CHAINS

(***************************************************************************)
(* Cache (clients/base.py)                                                  *)
(***************************************************************************)
\* Python's None among the values a cache entry can hold
PyNone == "None"

\* CacheEntry(data, ttl_seconds) built at time t
CacheEntry(data, ttl_seconds, t) == [data |-> data, expires_at |-> t + ttl_seconds]

\* SimpleCache.get at time t: the value returned and the store afterwards
SimpleCache_get_inclusive(c, key, t) ==
  IF key \in DOMAIN c /\ t <= c[key].expires_at
  THEN [ret |-> c[key].data, cache |-> c]
  ELSE IF key \in DOMAIN c
  THEN [ret |-> PyNone, cache |-> [k \in DOMAIN c \ {key} |-> c[k]]]
  ELSE [ret |-> PyNone, cache |-> c]

SimpleCache_get_keeping(c, key, t) ==
  IF key \in DOMAIN c /\ t < c[key].expires_at
  THEN [ret |-> c[key].data, cache |-> c]
  ELSE [ret |-> PyNone, cache |-> c]

SimpleCache_get_sliding(c, key, t) ==
  IF key \in DOMAIN c /\ t < c[key].expires_at
  THEN [ret |-> c[key].data,
        cache |-> [c EXCEPT ![key].expires_at = @ + (@ - t)]]
  ELSE IF key \in DOMAIN c
  THEN [ret |-> PyNone, cache |-> [k \in DOMAIN c \ {key} |-> c[k]]]
  ELSE [ret |-> PyNone, cache |-> c]

SimpleCache_get(c, key, t) ==
  IF key \in DOMAIN c /\ t < c[key].expires_at
  THEN [ret |-> c[key].data, cache |-> c]
  ELSE IF key \in DOMAIN c
  THEN [ret |-> PyNone, cache |-> [k \in DOMAIN c \ {key} |-> c[k]]]
  ELSE [ret |-> PyNone, cache |-> c]

\* SimpleCache.set at time t: the store afterwards
SimpleCache_set(c, key, data, ttl_seconds, t) ==
  [k \in DOMAIN c \cup {key} |->
     IF k = key THEN CacheEntry(data, ttl_seconds, t) ELSE c[k]]

\* SimpleCache.clear
SimpleCache_clear(c) == [k \in {} |-> PyNone]

\* json.dumps(..., sort_keys=True) on a dict given as its items in insertion
\* order: the items in ascending order of their names
RECURSIVE InsertSorted(_, _)
InsertSorted(item, sorted) ==
  IF sorted = <<>> THEN <<item>>
  ELSE IF StrLess(item[1], Head(sorted)[1]) THEN <<item>> \o sorted
  ELSE <<Head(sorted)>> \o InsertSorted(item, Tail(sorted))

RECURSIVE SortKeys(_)
SortKeys(items) ==
  IF items = <<>> THEN <<>>
  ELSE InsertSorted(Head(items), SortKeys(Tail(items)))

\* SimpleCache.make_key(url, params): the md5 digest is taken as injective,
\* so the key is the serialized text itself
make_key_unsorted(url, params) ==
  [url |-> url, params |-> params]

make_key(url, params) ==
  [url |-> url,
   params |-> IF params = None THEN None ELSE Some(SortKeys(params[1]))]

(***************************************************************************)
(* The cache driven directly: set, get, clear and the passing of time       *)
(***************************************************************************)
TimeStep == 30

CacheKeys == {"k1", "k2"}

CacheValues == {PyNone, "a", "b"}

CacheTtls == {30, 60}

NoOp == [n |-> 0, name |-> "none", key |-> "", data |-> PyNone, ttl |-> 0, ret |-> PyNone]

EmptyDict == [k \in {} |-> PyNone]

Tick ==
  /\ now + TimeStep <= MaxTime
  /\ now' = now + TimeStep
  /\ UNCHANGED <<cache, lastSet, op, tasks, _client, calls, keyIn, keyOut, yIn, yOut,
                 secIn, secOut, quoteIn, quoteOut,
                 api_key, asyncClients, chainIn, chainOut, secDoc>>

CacheSet(k, v, ttl) ==
  /\ op.n < MaxOps
  /\ cache' = SimpleCache_set(cache, k, v, ttl, now)
  /\ lastSet' = [x \in DOMAIN lastSet \cup {k} |->
                   IF x = k THEN [data |-> v, at |-> now, ttl |-> ttl, by |-> 0]
                            ELSE lastSet[x]]
  /\ op' = [n |-> op.n + 1, name |-> "set", key |-> k, data |-> v, ttl |-> ttl, ret |-> PyNone]
  /\ UNCHANGED <<now, tasks, _client, calls, keyIn, keyOut, yIn, yOut,
                 secIn, secOut, quoteIn, quoteOut,
                 api_key, asyncClients, chainIn, chainOut, secDoc>>

CacheGet(k) ==
  /\ op.n < MaxOps
  /\ cache' = SimpleCache_get(cache, k, now).cache
  /\ op' = [n |-> op.n + 1, name |-> "get", key |-> k, data |-> PyNone, ttl |-> 0,
            ret |-> SimpleCache_get(cache, k, now).ret]
  /\ UNCHANGED <<now, lastSet, tasks, _client, calls, keyIn, keyOut, yIn, yOut,
                 secIn, secOut, quoteIn, quoteOut,
                 api_key, asyncClients, chainIn, chainOut, secDoc>>

CacheClear ==
  /\ op.n < MaxOps
  /\ cache' = SimpleCache_clear(cache)
  /\ lastSet' = EmptyDict
  /\ op' = [n |-> op.n + 1, name |-> "clear", key |-> "", data |-> PyNone, ttl |-> 0, ret |-> PyNone]
  /\ UNCHANGED <<now, tasks, _client, calls, keyIn, keyOut, yIn, yOut,
                 secIn, secOut, quoteIn, quoteOut,
                 api_key, asyncClients, chainIn, chainOut, secDoc>>

(***************************************************************************)
(* make_key applied to two request identities                               *)
(***************************************************************************)
KeyUrls == {"u", "v"}

KeyNames == {<<"a">>, <<"b">>, <<"a", "b">>}

KeyVals == {<<"x">>, <<"y">>}

\* the dicts with at most MaxParams items, as item sequences in insertion order
ParamDicts ==
  UNION {{s \in [1..n -> KeyNames \X KeyVals] :
            \A i, j \in 1..n : i # j => s[i][1] # s[j][1]} : n \in 0..MaxParams}

KeyRequests == {[url |-> u, params |-> p] : u \in KeyUrls,
                                            p \in {None} \cup {Some(d) : d \in ParamDicts}}

NoKeys == [a |-> None, b |-> None]

MakeKeys ==
  /\ keyOut = NoKeys
  /\ keyOut' = [a |-> Some(make_key(keyIn.a.url, keyIn.a.params)),
                b |-> Some(make_key(keyIn.b.url, keyIn.b.params))]
  /\ UNCHANGED <<now, cache, lastSet, op, tasks, _client, calls, keyIn, yIn, yOut,
                 secIn, secOut, quoteIn, quoteOut,
                 api_key, asyncClients, chainIn, chainOut, secDoc>>

(***************************************************************************)
(* Exceptions                                                               *)
(***************************************************************************)
\* an exception: its class, str(e) as its fragments, and status_code
Exc(type, msg, status) == [type |-> type, msg |-> msg, status |-> status]

\* isinstance(e, cls) for the classes the except clauses name
IsInstance(type, cls) ==
  CASE cls = "Exception" -> TRUE
    [] cls = "ValueError" -> type \in {"ValueError", "JSONDecodeError"}
    [] cls = "APIError" -> type \in {"APIError", "RateLimitError"}
    [] OTHER -> type = cls

(***************************************************************************)
(* HTTP client base (clients/base.py)                                       *)
(***************************************************************************)
Clients == {"goplus", "coingecko", "defillama", "lifi"}

GOPLUS_TTL == 300
COINGECKO_TTL == 60
DEFILLAMA_TTL == 300
LIFI_TTL == 30

cache_ttl(client) ==
  CASE client = "goplus" -> GOPLUS_TTL
    [] client = "coingecko" -> COINGECKO_TTL
    [] client = "defillama" -> DEFILLAMA_TTL
    [] client = "lifi" -> LIFI_TTL

BASE_URL(client) ==
  CASE client = "goplus" -> "https://api.gopluslabs.io/api/v1"
    [] client = "coingecko" -> "https://api.coingecko.com/api/v3"
    [] client = "defillama" -> "https://yields.llama.fi"
    [] client = "lifi" -> "https://li.quest/v1"

PRO_BASE_URL == "https://pro-api.coingecko.com/api/v3"

\* no API key in the environment of the server
NoApiKeys == [c \in Clients |-> None]

\* self.base_url as set by the constructor of the client
base_url_always_free(client) == BASE_URL(client)

base_url(client) ==
  IF client = "coingecko" /\ Truthy(api_key[client]) THEN PRO_BASE_URL ELSE BASE_URL(client)

\* BaseClient._get_default_headers
BaseHeaders ==
  "User-Agent" :> <<"ToolFi/0.1.0">> @@ "Accept" :> <<"application/json">>

\* the key header added whenever a key was passed, the empty one included
_get_default_headers_unguarded(client) ==
  CASE client = "goplus" /\ api_key[client] # None ->
         BaseHeaders @@ "Authorization" :> <<"Bearer ", api_key[client][1]>>
    [] client = "coingecko" /\ api_key[client] # None ->
         BaseHeaders @@ "x-cg-pro-api-key" :> <<api_key[client][1]>>
    [] OTHER -> BaseHeaders

\* _get_default_headers of the client's class
_get_default_headers(client) ==
  CASE client = "goplus" /\ Truthy(api_key[client]) ->
         BaseHeaders @@ "Authorization" :> <<"Bearer ", api_key[client][1]>>
    [] client = "coingecko" /\ Truthy(api_key[client]) ->
         BaseHeaders @@ "x-cg-pro-api-key" :> <<api_key[client][1]>>
    [] OTHER -> BaseHeaders

\* httpx.AsyncClient(timeout=..., headers=...) constructed by client
AsyncClient(client, headers) == [owner |-> client, headers |-> headers, is_closed |-> FALSE]

\* a new pool for every request
_get_client_always_new(client, held, all) ==
  [_client |-> Some(Len(all) + 1),
   pools |-> Append(all, AsyncClient(client, _get_default_headers(client)))]

\* BaseClient._get_client: held is self._client, all the pools constructed
\* so far; the result is the new self._client and the pools
_get_client(client, held, all) ==
  IF held = None \/ all[held[1]].is_closed
  THEN [_client |-> Some(Len(all) + 1),
        pools |-> Append(all, AsyncClient(client, _get_default_headers(client)))]
  ELSE [_client |-> held, pools |-> all]

\* what the upstream can answer: no answer within the timeout, a transport
\* failure, or a status with a body
NoResp == [kind |-> "none", status |-> 0, body |-> ""]

JsonTexts == {"null", "[]", "{}", "{ok}", "{rejected}", "{notfound}", "{malformed}"}

\* the answers drawn where several calls follow one another
CoreResponses ==
  {[kind |-> "timeout", status |-> 0, body |-> ""],
   [kind |-> "response", status |-> 429, body |-> ""],
   [kind |-> "response", status |-> 500, body |-> ""]}
  \cup {[kind |-> "response", status |-> 200, body |-> b] : b \in {"null", "{ok}", "{rejected}", "{notfound}"}}

Responses ==
  {[kind |-> "timeout", status |-> 0, body |-> ""],
   [kind |-> "neterror", status |-> 0, body |-> ""]}
  \cup {[kind |-> "response", status |-> 200, body |-> b] : b \in JsonTexts \cup {"<html>"}}
  \cup {[kind |-> "response", status |-> 429, body |-> ""]}
  \cup {[kind |-> "response", status |-> s, body |-> b] :
          s \in {404, 500}, b \in {"", "{}", "<html>"}}

\* Response.is_success
is_success(status) == status >= 200 /\ status <= 299

IsJson(body) == body \in JsonTexts

\* Response.json() on a body that is JSON: the parsed value
ParseJson(body) ==
  CASE body = "null" -> PyNone
    [] body = "[]" -> "list"
    [] body = "{}" -> "dict_empty"
    [] body = "{ok}" -> "dict_ok"
    [] body = "{rejected}" -> "dict_rejected"
    [] body = "{notfound}" -> "dict_notfound"
    [] body = "{malformed}" -> "dict_malformed"

JSONDecodeError == Exc("JSONDecodeError", <<"Expecting value">>, None)

\* BaseClient.get up to the await of client.get: a cache hit returns, a miss
\* goes upstream (the expired entry, if any, has been deleted by the lookup)
BaseClient_get_lookup_bypass(url, params, use_cache, c, t) ==
  [hit |-> FALSE, ret |-> PyNone, cache |-> c]

BaseClient_get_lookup(url, params, use_cache, c, t) ==
  IF use_cache
  THEN LET looked == SimpleCache_get(c, make_key(url, params), t)
       IN [hit |-> looked.ret # PyNone, ret |-> looked.ret, cache |-> looked.cache]
  ELSE [hit |-> FALSE, ret |-> PyNone, cache |-> c]

\* BaseClient.get from the upstream answer on (the try block and its except
\* clauses): the value returned or the exception raised
BaseClient_get_outcome(resp) ==
  LET fail(e) == [ret |-> PyNone, exc |-> Some(e)]
  IN CASE resp.kind = "timeout" ->
            fail(Exc("APIError", <<"Request timeout">>, None))
       [] resp.kind = "neterror" ->
            fail(Exc("ConnectError", <<"All connection attempts failed">>, None))
       [] resp.kind = "response" /\ resp.status = 429 ->
            fail(Exc("RateLimitError", <<"Rate limit exceeded">>, Some(429)))
       [] resp.kind = "response" /\ resp.status # 429 /\ ~is_success(resp.status) ->
            \* except httpx.HTTPStatusError: e.response.json() is evaluated
            \* whenever the body is not empty
            IF resp.body # "" /\ ~IsJson(resp.body)
            THEN fail(JSONDecodeError)
            ELSE fail(Exc("APIError", <<"HTTP error: ", "{status}">>, Some(resp.status)))
       [] resp.kind = "response" /\ is_success(resp.status) ->
            IF ~IsJson(resp.body)
            THEN fail(JSONDecodeError)
            ELSE [ret |-> ParseJson(resp.body), exc |-> None]

\* the same with its effect on the cache: the store afterwards, and whether
\* cache.set ran
BaseClient_get_answer_always_store(resp, url, params, use_cache, ttl, c, t) ==
  LET o == BaseClient_get_outcome(resp)
  IN [ret |-> o.ret, exc |-> o.exc, stored |-> use_cache,
      cache |-> IF use_cache
                THEN SimpleCache_set(c, make_key(url, params), o.ret, ttl, t)
                ELSE c]

BaseClient_get_answer_keep_first(resp, url, params, use_cache, ttl, c, t) ==
  LET o == BaseClient_get_outcome(resp)
      stored == use_cache /\ o.exc = None /\ make_key(url, params) \notin DOMAIN c
  IN [ret |-> o.ret, exc |-> o.exc, stored |-> stored,
      cache |-> IF stored
                THEN SimpleCache_set(c, make_key(url, params), o.ret, ttl, t)
                ELSE c]

BaseClient_get_answer(resp, url, params, use_cache, ttl, c, t) ==
  LET o == BaseClient_get_outcome(resp)
      stored == use_cache /\ o.exc = None
  IN [ret |-> o.ret, exc |-> o.exc, stored |-> stored,
      cache |-> IF stored
                THEN SimpleCache_set(c, make_key(url, params), o.ret, ttl, t)
                ELSE c]

(***************************************************************************)
(* Token risk scoring (models.py)                                           *)
(*                                                                          *)
(* A tax is a float parsed from the provider's decimal string; it is kept   *)
(* in thousandths (155 is 0.155, that is 15.5%).                            *)
(***************************************************************************)
\* TokenSecurity as constructed, before calculate_risk
TokenSecurity(flags, buy_tax, sell_tax) ==
  [is_honeypot |-> flags.is_honeypot, buy_tax |-> buy_tax, sell_tax |-> sell_tax,
   is_mintable |-> flags.is_mintable,
   can_take_back_ownership |-> flags.can_take_back_ownership,
   owner_change_balance |-> flags.owner_change_balance,
   hidden_owner |-> flags.hidden_owner, is_blacklisted |-> flags.is_blacklisted,
   transfer_pausable |-> flags.transfer_pausable, is_proxy |-> flags.is_proxy,
   is_open_source |-> flags.is_open_source,
   risk_score |-> 0, risk_level |-> "safe", risk_factors |-> <<>>]

\* the defaults of the dataclass fields
DefaultFlags ==
  [is_honeypot |-> FALSE, is_mintable |-> FALSE, can_take_back_ownership |-> FALSE,
   owner_change_balance |-> FALSE, hidden_owner |-> FALSE, is_blacklisted |-> FALSE,
   transfer_pausable |-> FALSE, is_proxy |-> FALSE, is_open_source |-> TRUE]

\* the thousandths t for which the double nearest t/1000, times 100, falls
\* just below t/10 (0.29 * 100 is 28.999999999999996)
FloatShort == {290, 570, 580}

\* int(tax * 100): truncation of the double product
IntPercent(tax) == IF tax \in FloatShort THEN (tax \div 10) - 1 ELSE tax \div 10

\* the tax multiplied by 10 instead of 100
TaxPoints_tenths(tax) == MinOf(30, IntPercent(tax) \div 10)

\* the part of the percentage above the 10% threshold
TaxPoints_excess(tax) == MinOf(30, IntPercent(tax) - 10)

\* a percentage above the cap counted as nothing
TaxPoints_over_cap_zero(tax) == IF IntPercent(tax) > 30 THEN 0 ELSE IntPercent(tax)

\* min(30, int(tax * 100))
TaxPoints(tax) == MinOf(30, IntPercent(tax))

\* the if statements of calculate_risk in source order: the factor appended,
\* the condition and the points added
Rules(s) ==
  << [factor |-> "honeypot", holds |-> s.is_honeypot, points |-> 100],
     [factor |-> "buy_tax", holds |-> s.buy_tax > 100, points |-> TaxPoints(s.buy_tax)],
     [factor |-> "sell_tax", holds |-> s.sell_tax > 100, points |-> TaxPoints(s.sell_tax)],
     [factor |-> "mintable", holds |-> s.is_mintable, points |-> 20],
     [factor |-> "take_back_ownership", holds |-> s.can_take_back_ownership, points |-> 25],
     [factor |-> "owner_change_balance", holds |-> s.owner_change_balance, points |-> 30],
     [factor |-> "hidden_owner", holds |-> s.hidden_owner, points |-> 15],
     [factor |-> "blacklist", holds |-> s.is_blacklisted, points |-> 10],
     [factor |-> "transfer_pausable", holds |-> s.transfer_pausable, points |-> 15],
     [factor |-> "not_open_source", holds |-> ~s.is_open_source, points |-> 20],
     [factor |-> "proxy", holds |-> s.is_proxy, points |-> 10] >>

\* the statements chained with elif: only the first rule that holds counts
RECURSIVE SumPoints_first(_)
SumPoints_first(rules) ==
  IF rules = <<>> THEN 0
  ELSE IF Head(rules).holds THEN Head(rules).points
  ELSE SumPoints_first(Tail(rules))

\* score after the last if statement
RECURSIVE SumPoints(_)
SumPoints(rules) ==
  IF rules = <<>> THEN 0
  ELSE (IF Head(rules).holds THEN Head(rules).points ELSE 0) + SumPoints(Tail(rules))

HoldsRule(r) == r.holds

\* the append placed outside its if statement
Factors_all(rules) == [i \in DOMAIN rules |-> rules[i].factor]

\* factors after the last if statement
Factors(rules) ==
  LET held == SelectSeq(rules, HoldsRule)
  IN [i \in DOMAIN held |-> held[i].factor]

\* thresholds compared with > instead of >=
risk_level_strict(score) ==
  IF score > 80 THEN "critical"
  ELSE IF score > 50 THEN "high"
  ELSE IF score > 25 THEN "medium"
  ELSE IF score > 0 THEN "low"
  ELSE "safe"

\* the if/elif chain on the local score
risk_level(score) ==
  IF score >= 80 THEN "critical"
  ELSE IF score >= 50 THEN "high"
  ELSE IF score >= 25 THEN "medium"
  ELSE IF score > 0 THEN "low"
  ELSE "safe"

\* the score stored as summed
calculate_risk_unclamped(s) ==
  LET score == SumPoints(Rules(s))
  IN [s EXCEPT !.risk_score = score, !.risk_factors = Factors(Rules(s)),
               !.risk_level = risk_level(score)]

\* TokenSecurity.calculate_risk
calculate_risk_accumulating(s) ==
  LET score == s.risk_score + SumPoints(Rules(s))
  IN [s EXCEPT !.risk_score = MinOf(100, score),
               !.risk_factors = s.risk_factors \o Factors(Rules(s)),
               !.risk_level = risk_level(score)]

\* score and factors start from 0 and [] on every call
calculate_risk(s) ==
  LET score == SumPoints(Rules(s))
  IN [s EXCEPT !.risk_score = MinOf(100, score), !.risk_factors = Factors(Rules(s)),
               !.risk_level = risk_level(score)]

\* the record returned as constructed
check_token_security_result_unscored(security) == security

\* the end of check_token_security: security.calculate_risk(); return security
check_token_security_result(security) == calculate_risk(security)

\* the "risk" and "details" sections of the document token_security builds
\* from the record
token_security_risk(result) ==
  [level |-> result.risk_level, score |-> result.risk_score,
   factors |-> result.risk_factors, is_honeypot |-> result.is_honeypot,
   buy_tax |-> result.buy_tax, sell_tax |-> result.sell_tax]

(***************************************************************************)
(* DeFi yield listing (clients/defillama.py)                                *)
(***************************************************************************)
\* pool.get("tvlUsd", 0) or 0, pool.get("apy", 0) or 0
OrZero(opt) == IF opt = None THEN 0 ELSE opt[1]

\* DefiPool(...) built from a pool of the upstream list
DefiPool(pool) ==
  [pool_id |-> pool.pool, chain |-> pool.chain, project |-> pool.project,
   tvl_usd |-> OrZero(pool.tvlUsd), apy |-> OrZero(pool.apy),
   stablecoin |-> pool.stablecoin]

\* the conditions under which the loop body reaches result.append
PassesFilters_no_tvl(pool, chain_filter, a) ==
  /\ ~(chain_filter # None /\ pool.chain # chain_filter[1])
  /\ ~(Truthy(a.project) /\ Lower(pool.project) # Lower(a.project[1]))
  /\ ~(OrZero(pool.apy) < a.min_apy \/ OrZero(pool.apy) > a.max_apy)
  /\ ~(a.stablecoin_only /\ ~pool.stablecoin)
  /\ ~(a.single_exposure /\ pool.exposure # "single")

PassesFilters(pool, chain_filter, a) ==
  /\ ~(chain_filter # None /\ pool.chain # chain_filter[1])
  /\ ~(Truthy(a.project) /\ Lower(pool.project) # Lower(a.project[1]))
  /\ ~(OrZero(pool.tvlUsd) < a.min_tvl)
  /\ ~(OrZero(pool.apy) < a.min_apy \/ OrZero(pool.apy) > a.max_apy)
  /\ ~(a.stablecoin_only /\ ~pool.stablecoin)
  /\ ~(a.single_exposure /\ pool.exposure # "single")

\* the for loop of get_pools with its break, from the pools still to visit
RECURSIVE Accumulate(_, _, _, _)
Accumulate(rest, result, a, chain_filter) ==
  IF rest = <<>> THEN result
  ELSE IF PassesFilters(Head(rest), chain_filter, a)
  THEN IF Len(result) + 1 >= a.limit
       THEN Append(result, DefiPool(Head(rest)))
       ELSE Accumulate(Tail(rest), Append(result, DefiPool(Head(rest))), a, chain_filter)
  ELSE Accumulate(Tail(rest), result, a, chain_filter)

\* result.sort(key=lambda x: x.apy, reverse=True): stable, descending
RECURSIVE InsertByApy(_, _)
InsertByApy(p, sorted) ==
  IF sorted = <<>> THEN <<p>>
  ELSE IF p.apy > Head(sorted).apy THEN <<p>> \o sorted
  ELSE <<Head(sorted)>> \o InsertByApy(p, Tail(sorted))

\* the list left in append order
SortByApy_none(ps) == ps

RECURSIVE SortByApy(_)
SortByApy(ps) ==
  IF ps = <<>> THEN <<>>
  ELSE InsertByApy(ps[Len(ps)], SortByApy(SubSeq(ps, 1, Len(ps) - 1)))

\* DefiLlamaClient.get_pools on the upstream list all_pools
get_pools(all_pools, a) ==
  LET chain_filter == IF Truthy(a.chain) THEN get_defillama_chain(a.chain[1]) ELSE None
  IN SortByApy(Accumulate(all_pools, <<>>, a, chain_filter))

(***************************************************************************)
(* Provider clients: the request each operation builds                      *)
(***************************************************************************)
S_contract_addresses == <<"c","o","n","t","r","a","c","t","_","a","d","d","r","e","s","s","e","s">>

S_vs_currencies == <<"v","s","_","c","u","r","r","e","n","c","i","e","s">>

S_include_24hr_change == <<"i","n","c","l","u","d","e","_","2","4","h","r","_","c","h","a","n","g","e">>

S_include_market_cap == <<"i","n","c","l","u","d","e","_","m","a","r","k","e","t","_","c","a","p">>

S_ids == <<"i","d","s">>

S_usd == <<"u","s","d">>

S_true == <<"t","r","u","e">>

NoRequest(e) ==
  [exc |-> Some(e), client |-> "", path |-> <<>>, params |-> None, use_cache |-> FALSE]

Request(client, path, params, use_cache) ==
  [exc |-> None, client |-> client, path |-> path, params |-> params, use_cache |-> use_cache]

UnsupportedChain ==
  Exc("ValueError",
      <<"Unsupported chain: ", "{chain}",
        ". Supported: ethereum, bsc, base, arbitrum, polygon, solana, etc.">>, None)

\* GoPlusClient.check_token_security up to self.get
check_token_security_unchecked(chain, contract_address) ==
  Request("goplus", <<"/token_security/", "{chain_id}">>,
          Some(<< <<S_contract_addresses, Strip(Lower(contract_address))>> >>), TRUE)

check_token_security_request(chain, contract_address) ==
  LET chain_id == get_goplus_chain_id(chain)
  IN IF chain_id = None \/ chain_id[1] = ""
     THEN NoRequest(UnsupportedChain)
     ELSE Request("goplus", <<"/token_security/", chain_id[1]>>,
                  Some(<< <<S_contract_addresses, Strip(Lower(contract_address))>> >>), TRUE)

\* CoinGeckoClient.get_token_price up to self.get
get_token_price_request(chain, contract_address, include_market_cap) ==
  LET platform == get_coingecko_platform(chain)
      base == << <<S_contract_addresses, Strip(Lower(contract_address))>>,
                 <<S_vs_currencies, S_usd>>,
                 <<S_include_24hr_change, S_true>> >>
  IN IF platform = None \/ platform[1] = ""
     THEN NoRequest(UnsupportedChain)
     ELSE Request("coingecko", <<"/simple/token_price/", platform[1]>>,
                  Some(IF include_market_cap
                       THEN Append(base, <<S_include_market_cap, S_true>>)
                       ELSE base), TRUE)

\* CoinGeckoClient.get_price_by_id up to self.get
get_price_by_id_request(coin_id) ==
  Request("coingecko", <<"/simple/price">>,
          Some(<< <<S_ids, coin_id>>, <<S_vs_currencies, S_usd>>,
                  <<S_include_24hr_change, S_true>> >>), TRUE)

\* DefiLlamaClient.get_all_pools up to self.get
get_all_pools_request == Request("defillama", <<"/pools">>, None, TRUE)

\* LiFiClient.get_quote up to self.get
get_quote_request_cached(from_chain, to_chain) ==
  LET from_chain_id == get_lifi_chain_id(from_chain)
      to_chain_id == get_lifi_chain_id(to_chain)
  IN IF from_chain_id = None \/ from_chain_id[1] = 0
     THEN NoRequest(Exc("ValueError", <<"Unsupported source chain: ", "{from_chain}">>, None))
     ELSE IF to_chain_id = None \/ to_chain_id[1] = 0
     THEN NoRequest(Exc("ValueError", <<"Unsupported destination chain: ", "{to_chain}">>, None))
     ELSE Request("lifi", <<"/quote">>, None, TRUE)

get_quote_request(from_chain, to_chain) ==
  LET from_chain_id == get_lifi_chain_id(from_chain)
      to_chain_id == get_lifi_chain_id(to_chain)
  IN IF from_chain_id = None \/ from_chain_id[1] = 0
     THEN NoRequest(Exc("ValueError", <<"Unsupported source chain: ", "{from_chain}">>, None))
     ELSE IF to_chain_id = None \/ to_chain_id[1] = 0
     THEN NoRequest(Exc("ValueError", <<"Unsupported destination chain: ", "{to_chain}">>, None))
     ELSE Request("lifi", <<"/quote">>, None, FALSE)

(***************************************************************************)
(* Bridge quoting: token resolution (clients/lifi.py)                       *)
(***************************************************************************)
NATIVE_TOKEN ==
  <<"0","x","0","0","0","0","0","0","0","0","0","0","0","0",
    "0","0","0","0","0","0","0","0","0","0","0","0","0","0",
    "0","0","0","0","0","0","0","0","0","0","0","0","0","0">>

USDC_ADDRESSES ==
  1 :> <<"0","x","A","0","b","8","6","9","9","1","c","6","2","1",
          "8","b","3","6","c","1","d","1","9","D","4","a","2","e",
          "9","E","b","0","c","E","3","6","0","6","e","B","4","8">> @@
  42161 :> <<"0","x","a","f","8","8","d","0","6","5","e","7","7","c",
              "8","c","C","2","2","3","9","3","2","7","C","5","E","D",
              "b","3","A","4","3","2","2","6","8","e","5","8","3","1">> @@
  8453 :> <<"0","x","8","3","3","5","8","9","f","C","D","6","e","D",
             "b","6","E","0","8","f","4","c","7","C","3","2","D","4",
             "f","7","1","b","5","4","b","d","A","0","2","9","1","3">> @@
  137 :> <<"0","x","3","c","4","9","9","c","5","4","2","c","e","f",
            "5","e","3","8","1","1","e","1","1","9","2","c","e","7",
            "0","d","8","c","c","0","3","d","5","c","3","3","5","9">> @@
  10 :> <<"0","x","0","b","2","C","6","3","9","c","5","3","3","8",
           "1","3","f","4","A","a","9","D","7","8","3","7","C","A",
           "f","6","2","6","5","3","d","0","9","7","F","f","8","5">>

\* the tuple ("ETH", "NATIVE", "MATIC", "BNB", "AVAX")
NativeSymbols ==
  {<<"E","T","H">>, <<"N","A","T","I","V","E">>, <<"M","A","T","I","C">>,
   <<"B","N","B">>, <<"A","V","A","X">>}

S_USDC == <<"U","S","D","C">>

\* token.startswith(prefix)
StartsWith(token, prefix) ==
  Len(token) >= Len(prefix) /\ SubSeq(token, 1, Len(prefix)) = prefix

\* the token compared as typed, without upper()
_resolve_token_case_sensitive(token, chain_id) ==
  IF token \in NativeSymbols THEN NATIVE_TOKEN
  ELSE IF token = S_USDC
  THEN IF chain_id \in DOMAIN USDC_ADDRESSES THEN USDC_ADDRESSES[chain_id] ELSE token
  ELSE IF StartsWith(token, <<"0","x">>) /\ Len(token) = 42 THEN Lower(token)
  ELSE token

\* LiFiClient._resolve_token
_resolve_token(token, chain_id) ==
  LET token_upper == Upper(token)
  IN IF token_upper \in NativeSymbols THEN NATIVE_TOKEN
     ELSE IF token_upper = S_USDC
     THEN IF chain_id \in DOMAIN USDC_ADDRESSES THEN USDC_ADDRESSES[chain_id] ELSE token
     ELSE IF StartsWith(token, <<"0","x">>) /\ Len(token) = 42 THEN Lower(token)
     ELSE token

\* the params dict of get_quote; amount, from_address and slippage are
\* copied from the arguments
get_quote_params(from_chain_id, to_chain_id, from_token, to_token) ==
  [fromChain |-> from_chain_id, toChain |-> to_chain_id,
   fromToken |-> _resolve_token(from_token, from_chain_id),
   toToken |-> _resolve_token(to_token, to_chain_id),
   fromAmount |-> "{amount}", fromAddress |-> "{from_address}", slippage |-> "0.03"]

\* LiFiClient.get_quote up to self.get, with the params it sends
get_quote_call(from_chain, to_chain, from_token, to_token) ==
  LET req == get_quote_request(from_chain, to_chain)
  IN IF req.exc # None THEN req
     ELSE [req EXCEPT !.params =
             Some(get_quote_params(get_lifi_chain_id(from_chain)[1],
                                   get_lifi_chain_id(to_chain)[1], from_token, to_token))]

\* GoPlusClient.get_supported_chains up to self.get
get_supported_chains_request == Request("goplus", <<"/supported_chains">>, None, TRUE)

\* CoinGeckoClient.get_trending up to self.get
get_trending_request == Request("coingecko", <<"/search/trending">>, None, TRUE)

ToolRequest(inv) ==
  CASE inv.tool = "token_security" -> check_token_security_request(inv.chain, inv.address)
    [] inv.tool = "token_price" ->
         get_token_price_request(inv.chain, inv.address, inv.include_market_cap)
    [] inv.tool = "crypto_price" -> get_price_by_id_request(inv.coin)
    [] inv.tool = "defi_yields" -> get_all_pools_request
    [] inv.tool = "bridge_quote" -> get_quote_request(inv.chain, inv.to_chain)
    [] inv.tool = "supported_chains" -> get_supported_chains_request
    [] inv.tool = "trending_coins" -> get_trending_request

(***************************************************************************)
(* Provider clients and tool facade: from the parsed body to the document   *)
(***************************************************************************)
\* a returned JSON document: its top-level fields, its error message (the
\* fragments of the string) and, for defi_yields, its count
Doc(fields, count) == [fields |-> fields, error |-> <<>>, count |-> count]

ErrorDoc(msg) == [fields |-> {"error"}, error |-> msg, count |-> -1]

NoDoc == [fields |-> {}, error |-> <<>>, count |-> -1]

Built(doc) == [exc |-> None, doc |-> doc]

Raises(type, msg) == [exc |-> Some(Exc(type, msg, None)), doc |-> NoDoc]

NoAttribute == <<"object has no attribute 'get'">>

\* the upstream pool list of a well-formed /pools body
SamplePools ==
  << [pool |-> "p1", chain |-> "Base", project |-> <<"a","a","v","e">>, tvlUsd |-> Some(2000000),
      apy |-> Some(8), stablecoin |-> TRUE, exposure |-> "single"],
     [pool |-> "p2", chain |-> "Base", project |-> <<"a","a","v","e">>, tvlUsd |-> Some(500),
      apy |-> Some(50), stablecoin |-> FALSE, exposure |-> "multi"] >>

\* check_token_security after self.get, then token_security's response
token_security_build(inv, data) ==
  CASE data \in {PyNone, "list"} -> Raises("AttributeError", NoAttribute)
    [] data \in {"dict_empty", "dict_rejected"} ->
         Raises("APIError", <<"GoPlus API error: ", "{message}">>)
    [] data = "dict_notfound" ->
         Raises("APIError", <<"Token not found: ", "{address}", " on ", "{chain}">>)
    [] data = "dict_malformed" ->
         Raises("ValueError", <<"could not convert string to float: ", "{buy_tax}">>)
    [] data = "dict_ok" -> Built(Doc({"token", "risk", "details", "market"}, -1))

\* get_token_price after self.get, then token_price's response
token_price_build(inv, data) ==
  CASE data \in {PyNone, "list", "dict_empty", "dict_rejected", "dict_notfound"} ->
         Raises("APIError", <<"Token not found: ", "{address}", " on ", "{chain}">>)
    [] data = "dict_malformed" ->
         Raises("ValueError", <<"Unknown format code 'f' for object of type 'str'">>)
    [] data = "dict_ok" ->
         Built(Doc({"token", "price"}
                   \cup (IF inv.include_market_cap THEN {"market_cap_usd"} ELSE {}), -1))

\* get_price_by_id after self.get, then crypto_price's response
crypto_price_build(inv, data) ==
  CASE data \in {PyNone, "list"} -> Raises("AttributeError", NoAttribute)
    [] data \in {"dict_empty", "dict_rejected", "dict_notfound"} ->
         Built(ErrorDoc(<<"Coin not found: ", "{coin}">>))
    [] data = "dict_malformed" ->
         Raises("TypeError", <<"unsupported format string passed to NoneType.__format__">>)
    [] data = "dict_ok" -> Built(Doc({"coin", "price_usd", "change_24h"}, -1))

\* get_all_pools and get_pools after self.get, then defi_yields' response
defi_yields_build(inv, data) ==
  CASE data \in {PyNone, "list"} -> Raises("AttributeError", NoAttribute)
    [] data \in {"dict_empty", "dict_rejected", "dict_notfound"} ->
         Built(Doc({"count", "pools"}, Len(get_pools(<<>>, inv.y))))
    [] data = "dict_malformed" ->
         Raises("TypeError", <<"'<' not supported between instances of 'str' and 'float'">>)
    [] data = "dict_ok" ->
         Built(Doc({"count", "pools"}, Len(get_pools(SamplePools, inv.y))))

\* get_quote after self.get, then bridge_quote's response
bridge_quote_build(inv, data) ==
  CASE data = PyNone -> Raises("TypeError", <<"argument of type 'NoneType' is not iterable">>)
    [] data = "list" -> Raises("AttributeError", NoAttribute)
    [] data = "dict_rejected" -> Raises("APIError", <<"Li.Fi error: ", "{message}">>)
    [] data = "dict_malformed" ->
         Raises("ValueError", <<"could not convert string to float: ", "{toAmountUSD}">>)
    [] data \in {"dict_empty", "dict_notfound", "dict_ok"} ->
         Built(Doc({"route", "amounts", "costs", "execution"}, -1))

\* get_supported_chains after self.get, then supported_chains' response
supported_chains_build(inv, data) ==
  CASE data \in {PyNone, "list"} -> Raises("AttributeError", NoAttribute)
    [] data \in {"dict_empty", "dict_rejected"} ->
         Raises("APIError", <<"GoPlus API error: ", "{message}">>)
    [] data = "dict_malformed" -> Raises("KeyError", <<"'name'">>)
    [] data \in {"dict_notfound", "dict_ok"} ->
         Built(Doc({"goplus", "coingecko", "defillama", "lifi"}, -1))

\* get_trending after self.get, then trending_coins' response
trending_coins_build(inv, data) ==
  CASE data \in {PyNone, "list"} -> Raises("AttributeError", NoAttribute)
    [] data = "dict_malformed" -> Raises("AttributeError", NoAttribute)
    [] data \in {"dict_empty", "dict_rejected", "dict_notfound", "dict_ok"} ->
         Built(Doc({"trending"}, -1))

ToolBuild(inv, data) ==
  CASE inv.tool = "token_security" -> token_security_build(inv, data)
    [] inv.tool = "token_price" -> token_price_build(inv, data)
    [] inv.tool = "crypto_price" -> crypto_price_build(inv, data)
    [] inv.tool = "defi_yields" -> defi_yields_build(inv, data)
    [] inv.tool = "bridge_quote" -> bridge_quote_build(inv, data)
    [] inv.tool = "supported_chains" -> supported_chains_build(inv, data)
    [] inv.tool = "trending_coins" -> trending_coins_build(inv, data)

\* the except clauses of each tool, in order: the class caught and what is
\* put before str(e)
ValueErrorOnly(tool) == << [cls |-> "ValueError", prefix |-> <<>>] >>

ExceptClauses(tool) ==
  IF tool \in {"token_security", "token_price", "bridge_quote"}
  THEN << [cls |-> "ValueError", prefix |-> <<>>],
          [cls |-> "Exception", prefix |-> <<"API error: ">>] >>
  ELSE << [cls |-> "Exception", prefix |-> <<>>] >>

\* the try/except of a tool applied to an exception raised inside it: the
\* document returned, or the exception itself when no clause catches it
Catch(tool, e) ==
  LET clauses == ExceptClauses(tool)
      matching == {i \in DOMAIN clauses : IsInstance(e.type, clauses[i].cls)}
  IN IF matching = {}
     THEN [doc |-> NoDoc, raised |-> Some(e)]
     ELSE LET first == CHOOSE i \in matching : \A j \in matching : i <= j
          IN [doc |-> ErrorDoc(clauses[first].prefix \o e.msg), raised |-> None]

(***************************************************************************)
(* Tool invocations: each runs as one task that suspends only while its     *)
(* upstream request is in flight                                            *)
(***************************************************************************)
TaskIds == {1, 2}

C_eth == <<"e","t","h">>

C_ETH == <<"E","T","H">>

C_doesnotexist == <<"d","o","e","s","n","o","t","e","x","i","s","t">>

C_base == <<"b","a","s","e">>

C_linea == <<"l","i","n","e","a">>

ADDR == <<"0","x","A","b"," ">>

COIN == <<"b","t","c">>

DefaultYield ==
  [chain |-> None, project |-> None, min_tvl |-> 100000, min_apy |-> 1, max_apy |-> 100,
   stablecoin_only |-> FALSE, single_exposure |-> FALSE, limit |-> 20]

Inv(tool, chain, to_chain, address, include_market_cap, coin, y) ==
  [tool |-> tool, chain |-> chain, to_chain |-> to_chain, address |-> address,
   include_market_cap |-> include_market_cap, coin |-> coin, y |-> y]

NoInv == Inv("", <<>>, <<>>, <<>>, FALSE, <<>>, DefaultYield)

\* the calls a host makes in this model
Invocations ==
  {Inv("token_security", c, <<>>, ADDR, FALSE, <<>>, DefaultYield) :
     c \in {C_eth, C_ETH, C_doesnotexist}}
  \cup {Inv("token_price", C_base, <<>>, ADDR, m, <<>>, DefaultYield) : m \in BOOLEAN}
  \cup {Inv("token_price", C_linea, <<>>, ADDR, FALSE, <<>>, DefaultYield)}
  \cup {Inv("crypto_price", <<>>, <<>>, <<>>, FALSE, COIN, DefaultYield)}
  \cup {Inv("defi_yields", <<>>, <<>>, <<>>, FALSE, <<>>, y) :
          y \in {DefaultYield,
                 [DefaultYield EXCEPT !.chain = Some(C_base), !.stablecoin_only = TRUE]}}
  \cup {Inv("bridge_quote", C_eth, c, <<>>, FALSE, <<>>, DefaultYield) :
          c \in {C_base, C_linea}}
  \cup {Inv("supported_chains", <<>>, <<>>, <<>>, FALSE, <<>>, DefaultYield),
        Inv("trending_coins", <<>>, <<>>, <<>>, FALSE, <<>>, DefaultYield)}

\* the calls drawn where several calls follow one another
CoreInvocations ==
  {Inv("token_security", c, <<>>, ADDR, FALSE, <<>>, DefaultYield) :
     c \in {C_eth, C_ETH, C_doesnotexist}}
  \cup {Inv("crypto_price", <<>>, <<>>, <<>>, FALSE, COIN, DefaultYield),
        Inv("bridge_quote", C_eth, C_base, <<>>, FALSE, <<>>, DefaultYield)}

NoGet == [ret |-> PyNone, exc |-> None]

IdleTask ==
  [pc |-> "idle", inv |-> NoInv, req |-> Request("", <<>>, None, FALSE), nreq |-> 0,
   hit |-> FALSE, resp |-> NoResp, get |-> NoGet, failure |-> None, doc |-> NoDoc,
   raised |-> None, pool |-> None, started |-> 0]

\* url = f"{self.base_url}{path}"
Url(req) == <<base_url(req.client)>> \o req.path

\* the rest of the tool body once the client call has returned or raised
Complete(task, g) ==
  LET built == IF g.exc # None THEN [exc |-> g.exc, doc |-> NoDoc]
               ELSE ToolBuild(task.inv, g.ret)
  IN IF built.exc # None
     THEN LET caught == Catch(task.inv.tool, built.exc[1])
          IN [task EXCEPT !.pc = "done", !.get = g, !.failure = built.exc,
                          !.doc = caught.doc, !.raised = caught.raised]
     ELSE [task EXCEPT !.pc = "done", !.get = g, !.doc = built.doc]

\* a tool is called: it runs to its return, or to the await of client.get
Call(t, inv) ==
  /\ tasks[t].pc = "idle"
  /\ calls' = calls + 1
  /\ LET rq == ToolRequest(inv)
         started == [IdleTask EXCEPT !.inv = inv, !.req = rq, !.started = calls + 1]
     IN IF rq.exc # None
        THEN /\ tasks' = [tasks EXCEPT ![t] = Complete(started, [ret |-> PyNone, exc |-> rq.exc])]
             /\ UNCHANGED <<cache, _client, asyncClients>>
        ELSE LET look == BaseClient_get_lookup(Url(rq), rq.params, rq.use_cache, cache, now)
             IN /\ cache' = look.cache
                /\ IF look.hit
                   THEN /\ tasks' = [tasks EXCEPT ![t] =
                                       Complete([started EXCEPT !.hit = TRUE],
                                                [ret |-> look.ret, exc |-> None])]
                        /\ UNCHANGED <<_client, asyncClients>>
                   ELSE LET got == _get_client(rq.client, _client[rq.client], asyncClients)
                        IN /\ tasks' = [tasks EXCEPT ![t] =
                                          [started EXCEPT !.pc = "awaiting", !.nreq = 1,
                                                          !.pool = got._client]]
                           /\ _client' = [_client EXCEPT ![rq.client] = got._client]
                           /\ asyncClients' = got.pools
  /\ UNCHANGED <<now, lastSet, op, keyIn, keyOut, yIn, yOut,
                 secIn, secOut, quoteIn, quoteOut,
                 api_key, chainIn, chainOut, secDoc>>

Invoke(t, inv) ==
  /\ calls < MaxCalls
  /\ Call(t, inv)

\* the same, the host taking the first free slot
InvokeTool(t, inv) ==
  /\ calls < MaxToolCalls
  /\ \A u \in TaskIds : u < t => tasks[u].pc # "idle"
  /\ Call(t, inv)

\* the task after the upstream has answered, and the store
Resume_retry(task, resp, c, t) ==
  LET ans == BaseClient_get_answer(resp, Url(task.req), task.req.params, task.req.use_cache,
                                   cache_ttl(task.req.client), c, t)
  IN [task |-> IF resp.kind = "response" /\ resp.status = 429 /\ task.nreq < 2
               THEN [task EXCEPT !.nreq = task.nreq + 1]
               ELSE Complete([task EXCEPT !.resp = resp], [ret |-> ans.ret, exc |-> ans.exc]),
      cache |-> ans.cache, stored |-> ans.stored]

Resume(task, resp, c, t) ==
  LET ans == BaseClient_get_answer(resp, Url(task.req), task.req.params, task.req.use_cache,
                                   cache_ttl(task.req.client), c, t)
  IN [task |-> Complete([task EXCEPT !.resp = resp], [ret |-> ans.ret, exc |-> ans.exc]),
      cache |-> ans.cache, stored |-> ans.stored]

\* the upstream answers (or the timeout elapses) and the task runs to its return
Respond(t, resp) ==
  /\ tasks[t].pc = "awaiting"
  /\ LET r == Resume(tasks[t], resp, cache, now)
         key == make_key(Url(tasks[t].req), tasks[t].req.params)
     IN /\ tasks' = [tasks EXCEPT ![t] = r.task]
        /\ cache' = r.cache
        /\ lastSet' = IF r.stored
                      THEN [k \in DOMAIN lastSet \cup {key} |->
                              IF k = key
                              THEN [data |-> r.cache[key].data, at |-> now,
                                    ttl |-> cache_ttl(tasks[t].req.client), by |-> t]
                              ELSE lastSet[k]]
                      ELSE lastSet
  /\ UNCHANGED <<now, op, _client, calls, keyIn, keyOut, yIn, yOut,
                 secIn, secOut, quoteIn, quoteOut,
                 api_key, asyncClients, chainIn, chainOut, secDoc>>

\* the host takes the document; the task slot is free again
Return(t) ==
  /\ tasks[t].pc = "done"
  /\ tasks' = [tasks EXCEPT ![t] = IdleTask]
  /\ UNCHANGED <<now, cache, lastSet, op, _client, calls, keyIn, keyOut, yIn, yOut,
                 secIn, secOut, quoteIn, quoteOut,
                 api_key, asyncClients, chainIn, chainOut, secDoc>>

(***************************************************************************)
(* get_pools applied to an upstream list                                    *)
(***************************************************************************)
P_aave == <<"a","a","v","e">>

P_Aave == <<"A","a","v","e">>

P_AAVE == <<"A","A","V","E">>

P_compound == <<"c","o","m","p","o","u","n","d">>

C_BASE == <<"B","A","S","E">>

C_fantom == <<"f","a","n","t","o","m">>

PoolUniverse ==
  {[pool |-> "p1", chain |-> "Base", project |-> P_aave, tvlUsd |-> Some(2000000),
    apy |-> Some(8), stablecoin |-> TRUE, exposure |-> "single"],
   [pool |-> "p2", chain |-> "Base", project |-> P_Aave, tvlUsd |-> Some(500),
    apy |-> Some(50), stablecoin |-> FALSE, exposure |-> "multi"],
   [pool |-> "p3", chain |-> "Ethereum", project |-> P_compound, tvlUsd |-> None,
    apy |-> None, stablecoin |-> TRUE, exposure |-> "single"],
   [pool |-> "p4", chain |-> "Base", project |-> P_compound, tvlUsd |-> Some(2000000),
    apy |-> Some(150), stablecoin |-> FALSE, exposure |-> "single"],
   [pool |-> "p5", chain |-> "Ethereum", project |-> P_AAVE, tvlUsd |-> Some(1500000),
    apy |-> Some(12), stablecoin |-> TRUE, exposure |-> "multi"],
   [pool |-> "p6", chain |-> "Base", project |-> P_aave, tvlUsd |-> Some(3000000),
    apy |-> Some(20), stablecoin |-> TRUE, exposure |-> "multi"]}

\* the upstream lists: up to MaxPools distinct pools in any order
PoolLists ==
  UNION {{s \in [1..n -> PoolUniverse] : \A i, j \in 1..n : i # j => s[i] # s[j]} :
           n \in 0..MaxPools}

YieldArgs ==
  [chain : {None, Some(C_BASE), Some(C_eth), Some(C_fantom)},
   project : {None, Some(<<>>), Some(P_AAVE)},
   min_tvl : {0, 1000000},
   min_apy : {0, 10},
   max_apy : {100},
   stablecoin_only : BOOLEAN,
   single_exposure : BOOLEAN,
   limit : {0, 1, 2}]

GetPools ==
  /\ yOut = None
  /\ yOut' = Some(get_pools(yIn.pools, yIn.args))
  /\ UNCHANGED <<now, cache, lastSet, op, tasks, _client, calls, keyIn, keyOut, yIn,
                 secIn, secOut, quoteIn, quoteOut,
                 api_key, asyncClients, chainIn, chainOut, secDoc>>

(***************************************************************************)
(* calculate_risk applied to a token record                                 *)
(***************************************************************************)
NoSecurity == TokenSecurity(DefaultFlags, 0, 0)

\* taxes in thousandths: none, 5%, 10%, 10.1%, 15%, 15.5%, 20%, 28.9%,
\* 29%, 30%, 45%
TaxValues == {0, 50, 100, 101, 150, 155, 200, 289, 290, 300, 450}

RiskFlags ==
  [is_honeypot : BOOLEAN, is_mintable : BOOLEAN, can_take_back_ownership : BOOLEAN,
   owner_change_balance : BOOLEAN, hidden_owner : BOOLEAN, is_blacklisted : BOOLEAN,
   transfer_pausable : BOOLEAN, is_proxy : BOOLEAN, is_open_source : BOOLEAN]

CalculateRisk ==
  /\ secOut = None
  /\ secOut' = Some(check_token_security_result(secIn))
  /\ UNCHANGED <<now, cache, lastSet, op, tasks, _client, calls, keyIn, keyOut, yIn, yOut,
                 secIn, quoteIn, quoteOut,
                 api_key, asyncClients, chainIn, chainOut, secDoc>>

\* the record's one method, called again on the returned record
Recalculate ==
  /\ secOut # None
  /\ calls < MaxCalls
  /\ calls' = calls + 1
  /\ secOut' = Some(calculate_risk(secOut[1]))
  /\ UNCHANGED <<now, cache, lastSet, op, tasks, _client, keyIn, keyOut, yIn, yOut,
                 secIn, quoteIn, quoteOut,
                 api_key, asyncClients, chainIn, chainOut, secDoc>>

\* token_security reads the record into its document
BuildDocument ==
  /\ secOut # None
  /\ secDoc = None
  /\ secDoc' = Some(token_security_risk(secOut[1]))
  /\ UNCHANGED <<now, cache, lastSet, op, tasks, _client, calls, keyIn, keyOut, yIn, yOut,
                 secIn, secOut, quoteIn, quoteOut, api_key, asyncClients, chainIn, chainOut>>

(***************************************************************************)
(* Chain resolution applied to a provider and a string                      *)
(***************************************************************************)
NoChain == [provider |-> "", chain |-> <<>>]

\* every letter-case spelling of s
RECURSIVE CaseVariants(_)
CaseVariants(s) ==
  IF s = <<>> THEN {<<>>}
  ELSE {<<c>> \o t : c \in {LowerChar(Head(s)), UpperChar(Head(s))},
                     t \in CaseVariants(Tail(s))}

\* spellings of aliases, and strings that are no spelling of any alias:
\* padded, cut short, extended, empty, unknown
ChainStrings ==
  CaseVariants(C_eth) \cup CaseVariants(C_base) \cup CaseVariants(<<"b","s","c">>)
  \cup CaseVariants(<<"m","a","t","i","c">>) \cup CaseVariants(C_linea)
  \cup {<<>>, <<"e","t","h"," ">>, <<" ","e","t","h">>, <<"e","t">>, <<"e","t","h","e","r">>,
        <<"e","-","t","h">>, C_doesnotexist, C_fantom, <<"1">>, <<"B","a","s","e","_">>}

\* one lookup, and the same lookup once more
ResolveChain ==
  /\ Len(chainOut) < 2
  /\ chainOut' = Append(chainOut, resolve(chainIn.provider, chainIn.chain))
  /\ UNCHANGED <<now, cache, lastSet, op, tasks, _client, calls, keyIn, keyOut, yIn, yOut,
                 secIn, secOut, quoteIn, quoteOut, api_key, asyncClients, chainIn, secDoc>>

(***************************************************************************)
(* get_quote applied to chain and token arguments                           *)
(***************************************************************************)
C_bsc == <<"b","s","c">>

C_Polygon == <<"P","o","l","y","g","o","n">>

T_ETH == <<"E","T","H">>

T_eth == <<"e","t","h">>

T_Matic == <<"M","a","t","i","c">>

T_native == <<"n","a","t","i","v","e">>

T_bnb == <<"b","n","b">>

T_AVAX == <<"A","V","A","X">>

T_usdc == <<"u","s","d","c">>

T_DAI == <<"D","A","I">>

T_dai == <<"d","a","i">>

T_short == <<"0","x","A","b">>

T_lower_address ==
  <<"0","x","3","c","4","9","9","c","5","4","2","c","e","f",
    "5","e","3","8","1","1","e","1","1","9","2","c","e","7",
    "0","d","8","c","c","0","3","d","5","c","3","3","5","9">>

NoQuote == [from_chain |-> <<>>, to_chain |-> <<>>, from_token |-> <<>>, to_token |-> <<>>]

QuoteChains == {C_eth, C_base, C_bsc, C_Polygon, C_doesnotexist}

\* symbols in several letter cases, an unknown symbol, the empty string, a
\* checksummed and a lower-case address, and a string that only starts like one
QuoteTokens ==
  {T_ETH, T_eth, T_Matic, T_native, T_bnb, T_AVAX, S_USDC, T_usdc, T_DAI, T_dai, <<>>,
   USDC_ADDRESSES[1], T_lower_address, T_short}

GetQuote ==
  /\ quoteOut = None
  /\ quoteOut' = Some(get_quote_call(quoteIn.from_chain, quoteIn.to_chain,
                                     quoteIn.from_token, quoteIn.to_token))
  /\ UNCHANGED <<now, cache, lastSet, op, tasks, _client, calls, keyIn, keyOut, yIn, yOut,
                 secIn, secOut, quoteIn,
                 api_key, asyncClients, chainIn, chainOut, secDoc>>

(***************************************************************************)
(* Specifications                                                           *)
(***************************************************************************)
NoKeyRequest == [url |-> "", params |-> None]

NoYield == [pools |-> <<>>, args |-> DefaultYield]

\* the server after construction: empty cache, no connection pool, no call
Init ==
  /\ now = 0
  /\ api_key = NoApiKeys
  /\ cache = EmptyDict
  /\ lastSet = EmptyDict
  /\ op = NoOp
  /\ tasks = [t \in TaskIds |-> IdleTask]
  /\ _client = [c \in Clients |-> None]
  /\ asyncClients = <<>>
  /\ calls = 0
  /\ keyIn = [a |-> NoKeyRequest, b |-> NoKeyRequest]
  /\ keyOut = NoKeys
  /\ yIn = NoYield
  /\ yOut = None
  /\ secIn = NoSecurity
  /\ secOut = None
  /\ quoteIn = NoQuote
  /\ quoteOut = None
  /\ chainIn = NoChain
  /\ chainOut = <<>>
  /\ secDoc = None

Next ==
  \/ Tick
  \/ \E t \in TaskIds, inv \in CoreInvocations : Invoke(t, inv)
  \/ \E t \in TaskIds, resp \in CoreResponses : Respond(t, resp)
  \/ \E t \in TaskIds : Return(t)

Spec == Init /\ [][Next]_vars

\* every tool against every answer of the upstream, from the stores an
\* earlier successful call can have left behind
StoredBodies == {ParseJson(b) : b \in {"null", "{ok}", "{malformed}"}}

LeftBehind(inv, data) ==
  LET rq == ToolRequest(inv)
      key == make_key(Url(rq), rq.params)
  IN [cache |-> SimpleCache_set(EmptyDict, key, data, cache_ttl(rq.client), 0),
      lastSet |-> [k \in {key} |->
                     [data |-> data, at |-> 0, ttl |-> cache_ttl(rq.client), by |-> 0]]]

InitTools ==
  /\ now = 0
  /\ api_key = NoApiKeys
  /\ \/ cache = EmptyDict /\ lastSet = EmptyDict
     \/ \E inv \in Invocations, data \in StoredBodies :
          /\ ToolRequest(inv).exc = None
          /\ ToolRequest(inv).use_cache
          /\ cache = LeftBehind(inv, data).cache
          /\ lastSet = LeftBehind(inv, data).lastSet
  /\ op = NoOp
  /\ tasks = [t \in TaskIds |-> IdleTask]
  /\ _client = [c \in Clients |-> None]
  /\ asyncClients = <<>>
  /\ calls = 0
  /\ keyIn = [a |-> NoKeyRequest, b |-> NoKeyRequest]
  /\ keyOut = NoKeys
  /\ yIn = NoYield
  /\ yOut = None
  /\ secIn = NoSecurity
  /\ secOut = None
  /\ quoteIn = NoQuote
  /\ quoteOut = None
  /\ chainIn = NoChain
  /\ chainOut = <<>>
  /\ secDoc = None

NextTools ==
  \/ \E t \in TaskIds, inv \in Invocations : InvokeTool(t, inv)
  \/ \E t \in TaskIds, resp \in Responses : Respond(t, resp)
  \/ \E t \in TaskIds : Return(t)

SpecTools == InitTools /\ [][NextTools]_vars

NextCache ==
  \/ Tick
  \/ \E k \in CacheKeys, v \in CacheValues, ttl \in CacheTtls : CacheSet(k, v, ttl)
  \/ \E k \in CacheKeys : CacheGet(k)
  \/ CacheClear

SpecCache == Init /\ [][NextCache]_vars

InitKey ==
  /\ now = 0
  /\ api_key = NoApiKeys
  /\ cache = EmptyDict
  /\ lastSet = EmptyDict
  /\ op = NoOp
  /\ tasks = [t \in TaskIds |-> IdleTask]
  /\ _client = [c \in Clients |-> None]
  /\ asyncClients = <<>>
  /\ calls = 0
  /\ keyIn \in [a : KeyRequests, b : KeyRequests]
  /\ keyOut = NoKeys
  /\ yIn = NoYield
  /\ yOut = None
  /\ secIn = NoSecurity
  /\ secOut = None
  /\ quoteIn = NoQuote
  /\ quoteOut = None
  /\ chainIn = NoChain
  /\ chainOut = <<>>
  /\ secDoc = None

SpecKey == InitKey /\ [][MakeKeys]_vars

InitYield ==
  /\ now = 0
  /\ api_key = NoApiKeys
  /\ cache = EmptyDict
  /\ lastSet = EmptyDict
  /\ op = NoOp
  /\ tasks = [t \in TaskIds |-> IdleTask]
  /\ _client = [c \in Clients |-> None]
  /\ asyncClients = <<>>
  /\ calls = 0
  /\ keyIn = [a |-> NoKeyRequest, b |-> NoKeyRequest]
  /\ keyOut = NoKeys
  /\ yIn \in [pools : PoolLists, args : YieldArgs]
  /\ yOut = None
  /\ secIn = NoSecurity
  /\ secOut = None
  /\ quoteIn = NoQuote
  /\ quoteOut = None
  /\ chainIn = NoChain
  /\ chainOut = <<>>
  /\ secDoc = None

SpecYield == InitYield /\ [][GetPools]_vars

InitIdle ==
  /\ now = 0
  /\ api_key = NoApiKeys
  /\ cache = EmptyDict
  /\ lastSet = EmptyDict
  /\ op = NoOp
  /\ tasks = [t \in TaskIds |-> IdleTask]
  /\ _client = [c \in Clients |-> None]
  /\ asyncClients = <<>>
  /\ calls = 0
  /\ keyIn = [a |-> NoKeyRequest, b |-> NoKeyRequest]
  /\ keyOut = NoKeys
  /\ yIn = NoYield
  /\ yOut = None

InitRisk ==
  /\ InitIdle
  /\ secIn \in {TokenSecurity(f, b, s) : f \in RiskFlags, b \in TaxValues, s \in TaxValues}
  /\ secOut = None
  /\ quoteIn = NoQuote
  /\ quoteOut = None
  /\ chainIn = NoChain
  /\ chainOut = <<>>
  /\ secDoc = None

SpecRisk == InitRisk /\ [][CalculateRisk \/ Recalculate \/ BuildDocument]_vars

InitQuote ==
  /\ InitIdle
  /\ secIn = NoSecurity
  /\ secOut = None
  /\ quoteIn \in [from_chain : QuoteChains, to_chain : QuoteChains,
                  from_token : QuoteTokens, to_token : QuoteTokens]
  /\ quoteOut = None
  /\ chainIn = NoChain
  /\ chainOut = <<>>
  /\ secDoc = None

SpecQuote == InitQuote /\ [][GetQuote]_vars

InitChains ==
  /\ InitIdle
  /\ secIn = NoSecurity
  /\ secOut = None
  /\ quoteIn = NoQuote
  /\ quoteOut = None
  /\ chainIn \in [provider : Clients, chain : ChainStrings]
  /\ chainOut = <<>>
  /\ secDoc = None

SpecChains == InitChains /\ [][ResolveChain]_vars

\* the keys the environment can hold: unset, set to the empty string, set
K1 == <<"k","1">>

K2 == <<"k","2">>

\* the server constructed with GOPLUS_API_KEY and COINGECKO_API_KEY as the
\* environment gives them; the yield and bridge clients take no key
InitCred ==
  /\ now = 0
  /\ api_key \in {k \in [Clients -> {None, Some(<<>>), Some(K1), Some(K2)}] :
                     k["defillama"] = None /\ k["lifi"] = None}
  /\ cache = EmptyDict
  /\ lastSet = EmptyDict
  /\ op = NoOp
  /\ tasks = [t \in TaskIds |-> IdleTask]
  /\ _client = [c \in Clients |-> None]
  /\ asyncClients = <<>>
  /\ calls = 0
  /\ keyIn = [a |-> NoKeyRequest, b |-> NoKeyRequest]
  /\ keyOut = NoKeys
  /\ yIn = NoYield
  /\ yOut = None
  /\ secIn = NoSecurity
  /\ secOut = None
  /\ quoteIn = NoQuote
  /\ quoteOut = None
  /\ chainIn = NoChain
  /\ chainOut = <<>>
  /\ secDoc = None

\* one tool of each provider client
CredInvocations ==
  {inv \in Invocations :
     \/ inv.tool = "token_security" /\ inv.chain = C_eth
     \/ inv.tool = "crypto_price"
     \/ inv.tool = "defi_yields" /\ inv.y = DefaultYield
     \/ inv.tool = "bridge_quote" /\ inv.chain = C_eth}

CredResponses == {r \in CoreResponses : r.kind = "timeout" \/ r.body = "{ok}"}

NextCred ==
  \/ \E t \in TaskIds, inv \in CredInvocations : Invoke(t, inv)
  \/ \E t \in TaskIds, resp \in CredResponses : Respond(t, resp)
  \/ \E t \in TaskIds : Return(t)

SpecCred == InitCred /\ [][NextCred]_vars

(***************************************************************************)
(* Properties                                                               *)
(***************************************************************************)
IsErrorDoc(doc) == doc.fields = {"error"}

Mentions(msg, fragment) == \E i \in DOMAIN msg : msg[i] = fragment

Finished(t) == tasks[t].pc = "done"

Answered(t) == tasks[t].pc = "done" /\ tasks[t].resp.kind # "none"

\* the failure kinds of the error taxonomy, read off the exception raised
FailureKind(exc) ==
  IF exc = None THEN "none"
  ELSE IF exc[1].type = "RateLimitError" THEN "RateLimited"
  ELSE IF exc[1].type = "APIError" /\ exc[1].status # None THEN "UpstreamError"
  ELSE IF exc[1].type = "APIError" /\ exc[1].msg = <<"Request timeout">> THEN "Timeout"
  ELSE "other"

\* C1: every finished tool call has returned a document and let no exception
\* cross the tool boundary; when anything failed inside the tool (the client
\* call or the building of the response) the document has the single field
\* error.
C1_ErrorsBecomeDocuments ==
  \A t \in TaskIds :
    Finished(t) =>
      /\ tasks[t].raised = None
      /\ tasks[t].doc.fields # {}
      /\ tasks[t].failure # None => IsErrorDoc(tasks[t].doc)

C1_Witness ==
  \E t \in TaskIds :
    /\ Answered(t)
    /\ tasks[t].get.exc = None
    /\ tasks[t].failure # None
    /\ tasks[t].failure[1].type = "AttributeError"
    /\ IsErrorDoc(tasks[t].doc)

\* C2: a token_security call whose chain does not resolve in the security
\* provider's table finishes at once with an error document that says
\* "Unsupported chain", sends no upstream request, opens no connection pool
\* and leaves the cache as it was.
UnresolvedSecurityCall(t) ==
  /\ tasks[t].pc = "idle"
  /\ tasks'[t].pc # "idle"
  /\ tasks'[t].inv.tool = "token_security"
  /\ Lower(tasks'[t].inv.chain) \notin DOMAIN GOPLUS_CHAINS

C2_UnsupportedChainBeforeRequest ==
  [][\A t \in TaskIds :
       UnresolvedSecurityCall(t) =>
         /\ tasks'[t].pc = "done"
         /\ IsErrorDoc(tasks'[t].doc)
         /\ Mentions(tasks'[t].doc.error, "Unsupported chain: ")
         /\ tasks'[t].nreq = 0
         /\ cache' = cache
         /\ _client' = _client]_vars

C2_Witness ==
  \E t \in TaskIds :
    /\ Finished(t)
    /\ tasks[t].inv.tool = "token_security"
    /\ tasks[t].inv.chain = C_doesnotexist
    /\ Mentions(tasks[t].doc.error, "Unsupported chain: ")
    /\ tasks[t].nreq = 0

\* C3: BaseClient.get raises RateLimited on a 429, UpstreamError carrying the
\* status on every other non-2xx answer whatever the body, and Timeout when
\* no answer comes.
C3_UpstreamFailureKinds ==
  \A t \in TaskIds :
    Answered(t) =>
      LET resp == tasks[t].resp
          exc == tasks[t].get.exc
      IN /\ (resp.kind = "response" /\ resp.status = 429) =>
              FailureKind(exc) = "RateLimited"
         /\ (resp.kind = "response" /\ resp.status # 429 /\ ~is_success(resp.status)) =>
              FailureKind(exc) = "UpstreamError" /\ exc[1].status = Some(resp.status)
         /\ resp.kind = "timeout" => FailureKind(exc) = "Timeout"

\* C4: a get of a key after a set of that key returns the value set while
\* less than ttl has elapsed since the set and absent from then on; a set
\* changes no entry of another key.
IsCacheOp(name) == op'.n = op.n + 1 /\ op'.name = name

C4_RoundTrip ==
  [][/\ (IsCacheOp("get") /\ op'.key \in DOMAIN lastSet) =>
          LET s == lastSet[op'.key]
          IN IF now - s.at < s.ttl THEN op'.ret = s.data ELSE op'.ret = PyNone
     /\ IsCacheOp("set") =>
          /\ op'.key \in DOMAIN cache'
          /\ DOMAIN cache' = DOMAIN cache \cup {op'.key}
          /\ \A k \in DOMAIN cache \ {op'.key} : cache'[k] = cache[k]]_vars

C4_Witness ==
  /\ op.name = "get"
  /\ op.key \in DOMAIN lastSet
  /\ op.ret = lastSet[op.key].data
  /\ op.ret # PyNone
  /\ now > lastSet[op.key].at
  /\ \E k \in DOMAIN cache : k # op.key

\* C5: get returns absent and removes the entry exactly when the entry exists
\* and has expired; a live entry is returned and the store kept; a missing key
\* gives absent and the store kept; nothing but such a get, or clear, removes
\* an entry.
C5_LazyExpiry ==
  [][/\ IsCacheOp("get") =>
          LET k == op'.key
          IN /\ (k \in DOMAIN cache /\ now >= cache[k].expires_at) =>
                  /\ op'.ret = PyNone
                  /\ cache' = [x \in DOMAIN cache \ {k} |-> cache[x]]
             /\ (k \in DOMAIN cache /\ now < cache[k].expires_at) =>
                  op'.ret = cache[k].data /\ cache' = cache
             /\ k \notin DOMAIN cache => op'.ret = PyNone /\ cache' = cache
     /\ \A k \in DOMAIN cache \ DOMAIN cache' :
          \/ IsCacheOp("clear")
          \/ IsCacheOp("get") /\ op'.key = k /\ now >= cache[k].expires_at]_vars

C5_Witness ==
  /\ op.name = "get"
  /\ op.ret = PyNone
  /\ op.key \in DOMAIN lastSet
  /\ op.key \notin DOMAIN cache
  /\ \E k \in DOMAIN cache : now >= cache[k].expires_at

\* C6: two request identities get the same key exactly when they have the
\* same URL and the same parameter mapping, whatever the insertion order.
Mapping(params) == IF params = None THEN {} ELSE {params[1][i] : i \in DOMAIN params[1]}

SameIdentity(a, b) ==
  /\ a.url = b.url
  /\ (a.params = None) = (b.params = None)
  /\ Mapping(a.params) = Mapping(b.params)

C6_KeyDeterminism ==
  keyOut # NoKeys => (SameIdentity(keyIn.a, keyIn.b) <=> keyOut.a = keyOut.b)

C6_Witness ==
  /\ keyOut # NoKeys
  /\ keyIn.a.params # keyIn.b.params
  /\ SameIdentity(keyIn.a, keyIn.b)
  /\ keyOut.a = keyOut.b

\* C7: a cache-enabled request for a key whose last write (body b at time t)
\* is less than cache_ttl old returns b and sends no upstream request.
CachedCall(t) ==
  /\ tasks[t].pc = "idle"
  /\ tasks'[t].pc # "idle"
  /\ tasks'[t].req.exc = None
  /\ tasks'[t].req.use_cache
  /\ make_key(Url(tasks'[t].req), tasks'[t].req.params) \in DOMAIN lastSet
  /\ now < lastSet[make_key(Url(tasks'[t].req), tasks'[t].req.params)].at
           + cache_ttl(tasks'[t].req.client)

C7_HitServesWithoutUpstream ==
  [][\A t \in TaskIds :
       CachedCall(t) =>
         /\ tasks'[t].pc = "done"
         /\ tasks'[t].nreq = 0
         /\ tasks'[t].get.ret =
              lastSet[make_key(Url(tasks'[t].req), tasks'[t].req.params)].data]_vars

\* C8: only the answer to a cache-enabled request that succeeded (2xx, body
\* parsed) creates or overwrites a cache entry, that of its key, holding the
\* parsed body and expiring cache_ttl after now; every other step leaves each
\* entry it keeps as it was.
AnswerStep(t) == tasks[t].pc = "awaiting" /\ tasks'[t].pc = "done"

Succeeded(resp) == resp.kind = "response" /\ is_success(resp.status) /\ IsJson(resp.body)

StoringStep(t) ==
  AnswerStep(t) /\ tasks[t].req.use_cache /\ Succeeded(tasks'[t].resp)

C8_StoreOnlyOnSuccess ==
  [][/\ \A t \in TaskIds :
          StoringStep(t) =>
            LET key == make_key(Url(tasks[t].req), tasks[t].req.params)
            IN /\ key \in DOMAIN cache'
               /\ cache'[key] = [data |-> ParseJson(tasks'[t].resp.body),
                                 expires_at |-> now + cache_ttl(tasks[t].req.client)]
     /\ \A k \in DOMAIN cache' :
          \/ k \in DOMAIN cache /\ cache'[k] = cache[k]
          \/ \E t \in TaskIds :
               StoringStep(t) /\ k = make_key(Url(tasks[t].req), tasks[t].req.params)]_vars

C8_Witness ==
  \E t \in TaskIds :
    /\ Answered(t)
    /\ tasks[t].req.use_cache
    /\ Succeeded(tasks[t].resp)
    /\ make_key(Url(tasks[t].req), tasks[t].req.params) \in DOMAIN cache
    /\ \E u \in TaskIds :
         /\ Answered(u)
         /\ FailureKind(tasks[u].get.exc) \in {"RateLimited", "UpstreamError", "Timeout"}
         /\ tasks[u].req = tasks[t].req

\* C9: a tool call sends at most one upstream request; when that request has
\* failed the call ends with its error document and has sent no other.
C9_NoRetry ==
  \A t \in TaskIds :
    /\ tasks[t].nreq <= 1
    /\ (Answered(t) /\ tasks[t].get.exc # None) =>
         tasks[t].nreq = 1 /\ IsErrorDoc(tasks[t].doc)

C9_Witness ==
  \E t \in TaskIds :
    /\ Answered(t)
    /\ FailureKind(tasks[t].get.exc) = "RateLimited"
    /\ tasks[t].nreq = 1
    /\ IsErrorDoc(tasks[t].doc)

\* C10: with chain omitted or resolving in the yield provider's table, every
\* pool get_pools returns passes every requested filter (an empty chain or
\* project counts as not given, a missing TVL or APY as 0).
Source(pool_id) == CHOOSE p \in PoolUniverse : p.pool = pool_id

ChainResolves(a) == ~Truthy(a.chain) \/ Lower(a.chain[1]) \in DOMAIN DEFILLAMA_CHAINS

C10_FilterSoundness ==
  (yOut # None /\ ChainResolves(yIn.args)) =>
    \A i \in DOMAIN yOut[1] :
      LET r == yOut[1][i]
          src == Source(r.pool_id)
          a == yIn.args
      IN /\ \E j \in DOMAIN yIn.pools : yIn.pools[j] = src
         /\ Truthy(a.chain) => r.chain = DEFILLAMA_CHAINS[Lower(a.chain[1])]
         /\ Truthy(a.project) => Lower(r.project) = Lower(a.project[1])
         /\ OrZero(src.tvlUsd) >= a.min_tvl /\ r.tvl_usd >= a.min_tvl
         /\ OrZero(src.apy) >= a.min_apy /\ OrZero(src.apy) <= a.max_apy
         /\ r.apy >= a.min_apy /\ r.apy <= a.max_apy
         /\ a.stablecoin_only => src.stablecoin /\ r.stablecoin
         /\ a.single_exposure => src.exposure = "single"

C10_Witness ==
  /\ yOut # None
  /\ Truthy(yIn.args.chain)
  /\ ChainResolves(yIn.args)
  /\ Truthy(yIn.args.project)
  /\ yIn.args.min_tvl > 0
  /\ yIn.args.stablecoin_only
  /\ Len(yOut[1]) >= 1
  /\ Len(yOut[1]) < Len(yIn.pools)

\* the chain filter get_pools applies: none when chain is omitted or empty,
\* and none either when the alias is not in the yield provider's table
ChainFilter(a) == IF Truthy(a.chain) THEN get_defillama_chain(a.chain[1]) ELSE None

\* C11: get_pools called with a chain alias that is absent from the yield
\* provider's table fails with UnsupportedChain and returns no pools.
C11_UnknownChainFails ==
  (yOut # None /\ Truthy(yIn.args.chain) /\ ~ChainResolves(yIn.args)
     /\ yIn.args.limit >= 1) =>
    yOut[1] = <<>>

\* C12: for every limit >= 0 and every upstream list, get_pools returns at
\* most limit pools.
C12_AtMostLimit ==
  (yOut # None /\ yIn.args.limit >= 0) => Len(yOut[1]) <= yIn.args.limit

\* positions of the upstream list whose pool passes the filters, and the
\* first k of them in upstream order
Passing(pools, a) ==
  {i \in DOMAIN pools : PassesFilters(pools[i], ChainFilter(a), a)}

FirstPassing(pools, a, k) ==
  {i \in Passing(pools, a) : Cardinality({j \in Passing(pools, a) : j < i}) < k}

\* C13: for limit >= 1, get_pools returns exactly the first min(limit, m)
\* passing pools of the upstream order (m the number of passing pools), and
\* the returned list is in descending order of APY.
C13_TruncateThenSort ==
  (yOut # None /\ yIn.args.limit >= 1) =>
    LET out == yOut[1]
        a == yIn.args
        kept == FirstPassing(yIn.pools, a, a.limit)
    IN /\ Len(out) = MinOf(a.limit, Cardinality(Passing(yIn.pools, a)))
       /\ {out[i] : i \in DOMAIN out} = {DefiPool(yIn.pools[i]) : i \in kept}
       /\ \A i \in 1..(Len(out) - 1) : out[i].apy >= out[i + 1].apy

\* more pools pass than limit allows, the list was re-ordered by the sort,
\* and a passing pool left out has a higher APY than one returned: the
\* result is not the top-limit by APY
C13_Witness ==
  /\ yOut # None
  /\ yIn.args.limit >= 2
  /\ Cardinality(Passing(yIn.pools, yIn.args)) > yIn.args.limit
  /\ Len(yOut[1]) = yIn.args.limit
  /\ yOut[1] # [i \in 1..yIn.args.limit |->
                  DefiPool(yIn.pools[CHOOSE k \in Passing(yIn.pools, yIn.args) :
                     Cardinality({j \in Passing(yIn.pools, yIn.args) : j < k}) = i - 1])]
  /\ \E i \in Passing(yIn.pools, yIn.args) :
       /\ i \notin FirstPassing(yIn.pools, yIn.args, yIn.args.limit)
       /\ \E k \in DOMAIN yOut[1] : OrZero(yIn.pools[i].apy) > yOut[1][k].apy

\* the points of the flag rules, written out rule by rule
Weight(holds, points) == IF holds THEN points ELSE 0

FlagWeights(s) ==
  Weight(s.is_honeypot, 100) + Weight(s.is_mintable, 20)
  + Weight(s.can_take_back_ownership, 25) + Weight(s.owner_change_balance, 30)
  + Weight(s.hidden_owner, 15) + Weight(s.is_blacklisted, 10)
  + Weight(s.transfer_pausable, 15) + Weight(~s.is_open_source, 20)
  + Weight(s.is_proxy, 10)

\* C14: risk_score is min(100, S), S the sum of the weights of exactly the
\* rules whose condition holds (honeypot 100, mintable 20, reclaim ownership
\* 25, owner changes balance 30, hidden owner 15, blacklist 10, pausable 15,
\* not open source 20, proxy 10) plus a contribution of each tax, which is 0
\* for a tax of at most 10% and between 10 and 30 above it; risk_score is an
\* integer in [0, 100].
C14_ScoreIsClampedSum ==
  secOut # None =>
    LET s == secOut[1]
    IN /\ s.risk_score \in 0..100
       /\ \E bt, st \in 0..30 :
            /\ IF s.buy_tax > 100 THEN bt >= 10 ELSE bt = 0
            /\ IF s.sell_tax > 100 THEN st >= 10 ELSE st = 0
            /\ s.risk_score = MinOf(100, FlagWeights(s) + bt + st)

\* several flag rules hold at once, without and with clamping
C14_Witness ==
  /\ secOut # None
  /\ secIn.is_mintable /\ secIn.is_proxy /\ secIn.hidden_owner /\ ~secIn.is_open_source
  /\ secIn.owner_change_balance /\ secIn.can_take_back_ownership
  /\ secIn.sell_tax > 100
  /\ ~secIn.is_honeypot
  /\ secOut[1].risk_score = 100

\* round(tax * 100) for a tax in thousandths: to the nearest integer, a tie
\* to the even one
RoundPercent(tax) ==
  LET q == tax \div 10
      r == tax % 10
  IN IF r < 5 THEN q
     ELSE IF r > 5 THEN q + 1
     ELSE IF q % 2 = 0 THEN q ELSE q + 1

TaxRule(tax) == IF tax > 100 THEN MinOf(30, RoundPercent(tax)) ELSE 0

TaxFlags(s) ==
  (IF s.buy_tax > 100 THEN <<"buy_tax">> ELSE <<>>)
  \o (IF s.sell_tax > 100 THEN <<"sell_tax">> ELSE <<>>)

\* C15: a buy tax and a sell tax above 10% each add min(30, round(tax*100))
\* and emit one tax flag, for every tax value, fractional percentages
\* included; a tax of at most 10% adds 0 and emits nothing.  Stated on the
\* records where no flag rule holds, so that the score is the two tax
\* contributions.
C15_TaxRule ==
  (secOut # None /\ FlagWeights(secOut[1]) = 0) =>
    /\ secOut[1].risk_score = TaxRule(secIn.buy_tax) + TaxRule(secIn.sell_tax)
    /\ secOut[1].risk_factors = TaxFlags(secIn)

\* C16: the level is the threshold image of the stored risk_score: critical
\* iff >= 80, high iff in [50, 80), medium iff in [25, 50), low iff in
\* (0, 25), safe iff 0.
C16_LevelFromScore ==
  secOut # None =>
    LET score == secOut[1].risk_score
        level == secOut[1].risk_level
    IN /\ level \in {"critical", "high", "medium", "low", "safe"}
       /\ level = "critical" <=> score >= 80
       /\ level = "high" <=> (50 <= score /\ score < 80)
       /\ level = "medium" <=> (25 <= score /\ score < 50)
       /\ level = "low" <=> (0 < score /\ score < 25)
       /\ level = "safe" <=> score = 0

\* a score exactly on a threshold
C16_Witness ==
  /\ secOut # None
  /\ secOut[1].risk_score = 50
  /\ secOut[1].risk_level = "high"
  /\ secIn.is_mintable /\ secIn.owner_change_balance

Flag(holds, factor) == IF holds THEN <<factor>> ELSE <<>>

\* C17: risk_factors has one entry for each rule whose condition holds and
\* none for any other, in the order honeypot, buy tax, sell tax, mintable,
\* reclaim ownership, owner changes balance, hidden owner, blacklist,
\* pausable, not open source, proxy.
C17_FactorsInOrder ==
  secOut # None =>
    secOut[1].risk_factors =
      Flag(secIn.is_honeypot, "honeypot") \o Flag(secIn.buy_tax > 100, "buy_tax")
      \o Flag(secIn.sell_tax > 100, "sell_tax") \o Flag(secIn.is_mintable, "mintable")
      \o Flag(secIn.can_take_back_ownership, "take_back_ownership")
      \o Flag(secIn.owner_change_balance, "owner_change_balance")
      \o Flag(secIn.hidden_owner, "hidden_owner") \o Flag(secIn.is_blacklisted, "blacklist")
      \o Flag(secIn.transfer_pausable, "transfer_pausable")
      \o Flag(~secIn.is_open_source, "not_open_source") \o Flag(secIn.is_proxy, "proxy")

\* some rules hold and others do not, on both sides of the tax rules
C17_Witness ==
  /\ secOut # None
  /\ secOut[1].risk_factors = <<"buy_tax", "mintable", "blacklist", "proxy">>

\* C18: a record with is_honeypot true gets score 100 and level critical
\* whatever its other indicators, with exactly one honeypot entry in its
\* factors; with every other flag false and both taxes zero the result is
\* score 100, level critical.
C18_HoneypotIsCritical ==
  (secOut # None /\ secIn.is_honeypot) =>
    /\ secOut[1].risk_score = 100
    /\ secOut[1].risk_level = "critical"
    /\ Cardinality({i \in DOMAIN secOut[1].risk_factors :
                      secOut[1].risk_factors[i] = "honeypot"}) = 1

\* a honeypot with other rules holding as well
C18_Witness ==
  /\ secOut # None
  /\ secIn.is_honeypot /\ secIn.is_blacklisted /\ secIn.transfer_pausable
  /\ secIn.buy_tax > 100
  /\ Len(secOut[1].risk_factors) = 4

\* C19: all flags false/zero except buy_tax = 0.15 gives score 15, level
\* low; sell_tax = 0.20 with is_mintable and all else false gives score 40,
\* level medium.
C19_LiteralTaxCases ==
  secOut # None =>
    /\ secIn = TokenSecurity(DefaultFlags, 150, 0) =>
         secOut[1].risk_score = 15 /\ secOut[1].risk_level = "low"
    /\ secIn = TokenSecurity([DefaultFlags EXCEPT !.is_mintable = TRUE], 0, 200) =>
         secOut[1].risk_score = 40 /\ secOut[1].risk_level = "medium"

C19_Witness ==
  /\ secOut # None
  /\ secIn = TokenSecurity([DefaultFlags EXCEPT !.is_mintable = TRUE], 0, 200)
  /\ secOut[1].risk_factors = <<"sell_tax", "mintable">>

\* what the fixed table makes of a token argument for the chain chain_id
IsNativeSymbol(token) == \E n \in NativeSymbols : Lower(token) = Lower(n)

IsUsdc(token) == Lower(token) = Lower(S_USDC)

IsAddress(token) == Len(token) = 42 /\ token[1] = "0" /\ token[2] = "x"

Resolved(token, chain_id) ==
  IF IsNativeSymbol(token) THEN NATIVE_TOKEN
  ELSE IF IsUsdc(token) /\ chain_id \in DOMAIN USDC_ADDRESSES THEN USDC_ADDRESSES[chain_id]
  ELSE token

QuoteBuilt == quoteOut # None /\ quoteOut[1].exc = None

\* C20 as stated: in the request get_quote builds, each token argument that
\* is a native symbol in any letter case has become the native sentinel,
\* USDC has become the stablecoin address of the destination chain's ID, and
\* every symbol the table cannot resolve is passed through unchanged.  A
\* 42-character 0x string is an address, not a symbol, and is left out.
C20_ResolvedByDestinationChain ==
  QuoteBuilt =>
    LET sent == quoteOut[1].params[1]
    IN /\ ~IsAddress(quoteIn.from_token) =>
            sent.fromToken = Resolved(quoteIn.from_token, sent.toChain)
       /\ ~IsAddress(quoteIn.to_token) =>
            sent.toToken = Resolved(quoteIn.to_token, sent.toChain)

\* C20 amended: each token argument is resolved for its own chain (the
\* source chain's ID for from_token, the destination chain's for to_token):
\* a native symbol in any letter case becomes the sentinel, USDC in any
\* letter case the stablecoin address of that chain's ID, a 42-character
\* 0x string is lower-cased, and every other token (USDC on a chain
\* without entry included) is passed through unchanged.
C20_ResolvedByOwnChain ==
  QuoteBuilt =>
    LET sent == quoteOut[1].params[1]
        own(token, chain_id) ==
          IF Resolved(token, chain_id) = token /\ IsAddress(token)
          THEN Lower(token) ELSE Resolved(token, chain_id)
    IN /\ sent.fromChain = LIFI_CHAINS[Lower(quoteIn.from_chain)]
       /\ sent.toChain = LIFI_CHAINS[Lower(quoteIn.to_chain)]
       /\ sent.fromToken = own(quoteIn.from_token, sent.fromChain)
       /\ sent.toToken = own(quoteIn.to_token, sent.toChain)

\* USDC sent from one chain with a table entry to another, for a native
\* token typed in lower case
C20_Witness ==
  /\ QuoteBuilt
  /\ quoteIn.from_token = T_usdc
  /\ quoteIn.to_token = T_eth
  /\ quoteOut[1].params[1].fromChain = 1
  /\ quoteOut[1].params[1].toChain = 8453
  /\ quoteOut[1].params[1].fromToken = USDC_ADDRESSES[1]
  /\ quoteOut[1].params[1].toToken = NATIVE_TOKEN

\* a key is configured when the environment variable is set and not empty
Configured(client) == api_key[client] # None /\ api_key[client][1] # <<>>

CredentialHeaders == {"Authorization", "x-cg-pro-api-key"}

\* C21: every pool carries the product identifier and the accept-JSON
\* declaration; the price client's pool carries the custom key header, and
\* its requests go to the pro base URL, iff a non-empty key is configured,
\* otherwise no credential header and the free-tier URL; the security
\* client's pool carries a bearer Authorization header iff a key is
\* configured; the yield and bridge clients' pools carry no credential.
C21_CredentialHandling ==
  /\ \A i \in DOMAIN asyncClients :
       LET h == asyncClients[i].headers
           c == asyncClients[i].owner
       IN /\ {"User-Agent", "Accept"} \subseteq DOMAIN h
          /\ h["User-Agent"] = <<"ToolFi/0.1.0">>
          /\ h["Accept"] = <<"application/json">>
          /\ DOMAIN h \cap CredentialHeaders =
               IF ~Configured(c) THEN {}
               ELSE IF c = "coingecko" THEN {"x-cg-pro-api-key"}
               ELSE IF c = "goplus" THEN {"Authorization"}
               ELSE {}
          /\ (c = "coingecko" /\ Configured(c)) =>
               h["x-cg-pro-api-key"] = <<api_key[c][1]>>
          /\ (c = "goplus" /\ Configured(c)) =>
               h["Authorization"] = <<"Bearer ", api_key[c][1]>>
          /\ c \in {"defillama", "lifi"} => DOMAIN h = {"User-Agent", "Accept"}
  /\ \A k \in DOMAIN cache :
       /\ k.url[1] = PRO_BASE_URL => Configured("coingecko")
       /\ k.url[1] = BASE_URL("coingecko") => ~Configured("coingecko")

\* the price client with the empty key and the security client with a key
\* have both gone upstream, and the price answer is stored
C21_Witness ==
  /\ api_key["coingecko"] = Some(<<>>)
  /\ api_key["goplus"] = Some(K1)
  /\ \E i, j \in DOMAIN asyncClients :
       /\ asyncClients[i].owner = "coingecko"
       /\ asyncClients[j].owner = "goplus"
       /\ "Authorization" \in DOMAIN asyncClients[j].headers
  /\ \E k \in DOMAIN cache : k.url[1] = BASE_URL("coingecko")

\* a and b are the same character up to letter case
SameLetter(a, b) ==
  \/ a = b
  \/ \E i \in DOMAIN UpperLetters : {a, b} = {UpperLetters[i], LowerLetters[i]}

IsCaseVariant(s, key) ==
  Len(s) = Len(key) /\ \A i \in DOMAIN s : SameLetter(s[i], key[i])

\* C22: for each provider table and each string s, resolving s gives what
\* resolving lowercase(s) gives; a letter-case variant of a table alias
\* resolves to that alias's identifier, any other string to absent; and
\* repeating the lookup gives the same answer.
C22_CaseInsensitiveExactMatch ==
  chainOut # <<>> =>
    LET table == ChainTable(chainIn.provider)
        s == chainIn.chain
        r == chainOut[1]
    IN /\ r = resolve(chainIn.provider, Lower(s))
       /\ \A key \in DOMAIN table : IsCaseVariant(s, key) => r = Some(table[key])
       /\ (~\E key \in DOMAIN table : IsCaseVariant(s, key)) => r = None
       /\ \A i \in DOMAIN chainOut : chainOut[i] = r

\* a mixed-case spelling resolved twice by the bridge provider's table
C22_Witness ==
  /\ Len(chainOut) = 2
  /\ chainIn.provider = "lifi"
  /\ chainIn.chain = <<"B","a","S","e">>
  /\ chainOut[2] = Some(8453)

(***************************************************************************)
(* Two requests for one key that both miss                                  *)
(***************************************************************************)
TaskKey(t) == make_key(Url(tasks[t].req), tasks[t].req.params)

\* a cache-enabled request that found no live entry and went upstream
Missed(t) ==
  /\ tasks[t].pc \in {"awaiting", "done"}
  /\ tasks[t].req.exc = None
  /\ tasks[t].req.use_cache
  /\ ~tasks[t].hit

\* C23: two cache-enabled requests for one key that both found no live entry
\* are not coalesced: each has sent its own upstream request, and whenever one
\* of them completes with a success its step leaves the key's entry holding
\* its own parsed body and an expiry of its own completion time plus the
\* client's ttl, whether the other is still waiting or has already written;
\* so once both have completed the entry is that of the later completion,
\* whichever of the two was started first.
C23_LastCompletedWriteWins ==
  [][\A t, u \in TaskIds :
       (t # u /\ Missed(t) /\ Missed(u) /\ TaskKey(t) = TaskKey(u)) =>
         /\ tasks[t].nreq = 1 /\ tasks[u].nreq = 1
         /\ StoringStep(t) =>
              /\ TaskKey(t) \in DOMAIN cache'
              /\ cache'[TaskKey(t)] =
                   [data |-> ParseJson(tasks'[t].resp.body),
                    expires_at |-> now + cache_ttl(tasks[t].req.client)]]_vars

\* both have completed with different bodies, and the entry is that of the one
\* that was started first and completed last
C23_Witness ==
  \E t, u \in TaskIds :
    /\ t # u /\ Missed(t) /\ Missed(u) /\ TaskKey(t) = TaskKey(u)
    /\ tasks[t].pc = "done" /\ tasks[u].pc = "done"
    /\ Succeeded(tasks[t].resp) /\ Succeeded(tasks[u].resp)
    /\ ParseJson(tasks[t].resp.body) # ParseJson(tasks[u].resp.body)
    /\ tasks[t].started < tasks[u].started
    /\ lastSet[TaskKey(t)].by = t
    /\ TaskKey(t) \in DOMAIN cache
    /\ cache[TaskKey(t)].data = ParseJson(tasks[t].resp.body)

(***************************************************************************)
(* Connection pools                                                         *)
(***************************************************************************)
OpenPools(client) ==
  {i \in DOMAIN asyncClients :
     asyncClients[i].owner = client /\ ~asyncClients[i].is_closed}

GoesUpstream(t) == tasks[t].pc = "idle" /\ tasks'[t].pc = "awaiting"

\* C24: no client has a pool before the first call; a pool is created only by
\* a step in which a request goes upstream, for the client of that request and
\* only if that client held none (a call served from the cache or refused for
\* its chain creates nothing); each client has at most one open pool, also
\* when its first requests overlap; and the pool a waiting request uses is
\* the one its own client holds, no two clients holding the same pool.
C24_OnePoolPerClient ==
  [][/\ calls = 0 => asyncClients = <<>> /\ \A c \in Clients : _client[c] = None
     /\ \A c \in Clients :
          /\ Cardinality(OpenPools(c)) <= 1
          /\ _client[c] # None => OpenPools(c) = {_client[c][1]}
     /\ \A c, e \in Clients : (c # e /\ _client[c] # None) => _client[c] # _client[e]
     /\ \A t \in TaskIds :
          tasks[t].pc = "awaiting" => tasks[t].pool = _client[tasks[t].req.client]
                                      /\ tasks[t].pool # None
     /\ asyncClients' # asyncClients =>
          \E t \in TaskIds :
            /\ GoesUpstream(t)
            /\ _client[tasks'[t].req.client] = None
            /\ asyncClients' = Append(asyncClients,
                                      AsyncClient(tasks'[t].req.client,
                                                  asyncClients'[Len(asyncClients')].headers))
     /\ (\E t \in TaskIds : tasks[t].pc = "idle" /\ tasks'[t].pc = "done") =>
          asyncClients' = asyncClients /\ _client' = _client]_vars

\* two overlapping first requests of one client wait on the same pool, the
\* only one there is, and a client that sent nothing holds none
C24_Witness ==
  \E t, u \in TaskIds :
    /\ t # u /\ tasks[t].pc = "awaiting" /\ tasks[u].pc = "awaiting"
    /\ tasks[t].req.client = tasks[u].req.client
    /\ tasks[t].pool = tasks[u].pool
    /\ Len(asyncClients) = 1
    /\ \E c \in Clients : _client[c] = None

(***************************************************************************)
(* The derived fields of a returned record                                  *)
(***************************************************************************)
Indicators(s) ==
  [is_honeypot |-> s.is_honeypot, buy_tax |-> s.buy_tax, sell_tax |-> s.sell_tax,
   is_mintable |-> s.is_mintable, can_take_back_ownership |-> s.can_take_back_ownership,
   owner_change_balance |-> s.owner_change_balance, hidden_owner |-> s.hidden_owner,
   is_blacklisted |-> s.is_blacklisted, transfer_pausable |-> s.transfer_pausable,
   is_proxy |-> s.is_proxy, is_open_source |-> s.is_open_source]

\* the three derived fields of s are what the table gives for s's indicators
ScoredByTable(s) ==
  /\ \E bt, st \in 0..30 :
       /\ IF s.buy_tax > 100 THEN bt >= 10 ELSE bt = 0
       /\ IF s.sell_tax > 100 THEN st >= 10 ELSE st = 0
       /\ s.risk_score = MinOf(100, FlagWeights(s) + bt + st)
  /\ s.risk_level = IF s.risk_score >= 80 THEN "critical"
                    ELSE IF s.risk_score >= 50 THEN "high"
                    ELSE IF s.risk_score >= 25 THEN "medium"
                    ELSE IF s.risk_score > 0 THEN "low" ELSE "safe"
  /\ s.risk_factors =
       Flag(s.is_honeypot, "honeypot") \o Flag(s.buy_tax > 100, "buy_tax")
       \o Flag(s.sell_tax > 100, "sell_tax") \o Flag(s.is_mintable, "mintable")
       \o Flag(s.can_take_back_ownership, "take_back_ownership")
       \o Flag(s.owner_change_balance, "owner_change_balance")
       \o Flag(s.hidden_owner, "hidden_owner") \o Flag(s.is_blacklisted, "blacklist")
       \o Flag(s.transfer_pausable, "transfer_pausable")
       \o Flag(~s.is_open_source, "not_open_source") \o Flag(s.is_proxy, "proxy")

ProviderFailures == {"dict_rejected", "dict_notfound"}

\* a token_security call reaches the client's get for key k
SecurityLookup(t, k) ==
  /\ tasks[t].pc = "idle"
  /\ tasks'[t].pc # "idle"
  /\ tasks'[t].inv.tool = "token_security"
  /\ tasks'[t].req.exc = None
  /\ k = make_key(Url(tasks'[t].req), tasks'[t].req.params)

\* C26: a 2xx answer to a token_security lookup whose body the client then
\* rejects (provider code other than 1, or the address missing from the
\* result) is stored before it is rejected, and the call fails; an identical
\* lookup made while that entry is live is answered from it: no upstream
\* request, the same exception and the same error document as the call that
\* fetched the body.
C26_ProviderFailureCached ==
  [][\A t \in TaskIds :
       /\ (StoringStep(t) /\ tasks[t].inv.tool = "token_security"
              /\ ParseJson(tasks'[t].resp.body) \in ProviderFailures) =>
            /\ TaskKey(t) \in DOMAIN cache'
            /\ cache'[TaskKey(t)].data = ParseJson(tasks'[t].resp.body)
            /\ tasks'[t].failure # None
            /\ tasks'[t].failure[1].type = "APIError"
       /\ \A k \in DOMAIN cache :
            (SecurityLookup(t, k) /\ now < cache[k].expires_at
               /\ cache[k].data \in ProviderFailures) =>
              /\ tasks'[t].pc = "done"
              /\ tasks'[t].nreq = 0
              /\ tasks'[t].failure # None
              /\ tasks'[t].failure[1].type = "APIError"
              /\ \A u \in TaskIds \ {t} :
                   (tasks[u].pc = "done" /\ tasks[u].nreq = 1 /\ TaskKey(u) = k
                      /\ Succeeded(tasks[u].resp)
                      /\ ParseJson(tasks[u].resp.body) = cache[k].data) =>
                     /\ tasks'[t].failure = tasks[u].failure
                     /\ tasks'[t].doc = tasks[u].doc]_vars

\* one lookup fetched a body without the address and failed; the identical
\* lookup after it failed the same way without an upstream request
C26_Witness ==
  \E t, u \in TaskIds :
    /\ t # u /\ tasks[t].pc = "done" /\ tasks[u].pc = "done"
    /\ tasks[t].inv.tool = "token_security" /\ tasks[u].inv = tasks[t].inv
    /\ tasks[u].nreq = 1 /\ Succeeded(tasks[u].resp)
    /\ ParseJson(tasks[u].resp.body) = "dict_notfound"
    /\ tasks[t].hit /\ tasks[t].nreq = 0
    /\ tasks[t].started > tasks[u].started
    /\ tasks[t].failure = tasks[u].failure /\ tasks[t].failure # None
    /\ now > 0

(***************************************************************************)
(* Expiry of an entry that is read                                          *)
(***************************************************************************)
ServedFromCache(t) == tasks[t].pc = "idle" /\ tasks'[t].pc = "done" /\ tasks'[t].hit

\* C27: every entry expires at the time of the most recent set of its key
\* plus the ttl of that set, which is the cache_ttl of the client whose
\* request wrote it; a call served from the cache leaves the whole store as it
\* was, and an entry that stays in the store changes only in the step of a
\* successful cache-enabled request for its key.
C27_NoSlidingExpiry ==
  /\ [](\A k \in DOMAIN cache :
          /\ k \in DOMAIN lastSet
          /\ cache[k].expires_at = lastSet[k].at + lastSet[k].ttl)
  /\ [][\A t \in TaskIds :
          /\ ServedFromCache(t) => cache' = cache
          /\ StoringStep(t) =>
               /\ cache'[TaskKey(t)].expires_at = now + cache_ttl(tasks[t].req.client)
               /\ lastSet'[TaskKey(t)].ttl = cache_ttl(tasks[t].req.client)
               /\ lastSet'[TaskKey(t)].at = now]_vars
  /\ [][\A k \in DOMAIN cache \cap DOMAIN cache' :
          cache'[k] # cache[k] => \E t \in TaskIds : StoringStep(t) /\ TaskKey(t) = k]_vars

\* an entry written at time 0 was read later and still expires at 0 + ttl
C27_Witness ==
  \E t \in TaskIds :
    /\ tasks[t].pc = "done" /\ tasks[t].hit
    /\ now > 0
    /\ TaskKey(t) \in DOMAIN cache
    /\ lastSet[TaskKey(t)].at = 0
    /\ now < cache[TaskKey(t)].expires_at
    /\ cache[TaskKey(t)].expires_at = cache_ttl(tasks[t].req.client)
    /\ cache_ttl(tasks[t].req.client) < MaxTime

(***************************************************************************)
(* Bridge quotes and the cache                                              *)
(***************************************************************************)
\* a bridge_quote call whose two chains are supported reaches the client's get
QuoteLookup(t) ==
  /\ tasks[t].pc = "idle"
  /\ tasks'[t].pc # "idle"
  /\ tasks'[t].inv.tool = "bridge_quote"
  /\ tasks'[t].req.exc = None

\* C28: a bridge_quote call with supported chains is never answered from the
\* cache: it sends one upstream request whatever the store holds and however
\* recently the same quote was fetched, and neither the step that sends it nor
\* the step that takes the answer changes the store.
C28_QuotesBypassCache ==
  [][\A t \in TaskIds :
       /\ QuoteLookup(t) =>
            /\ tasks'[t].pc = "awaiting"
            /\ tasks'[t].nreq = 1
            /\ ~tasks'[t].hit
            /\ cache' = cache
       /\ (AnswerStep(t) /\ tasks[t].inv.tool = "bridge_quote") =>
            /\ tasks'[t].nreq = 1
            /\ cache' = cache]_vars

\* a quote was fetched successfully, and the identical quote asked at the
\* same instant is waiting for its own upstream answer; the store holds
\* nothing for it
C28_Witness ==
  \E t, u \in TaskIds :
    /\ t # u
    /\ tasks[u].inv.tool = "bridge_quote" /\ tasks[t].inv = tasks[u].inv
    /\ tasks[u].pc = "done" /\ Succeeded(tasks[u].resp) /\ tasks[u].nreq = 1
    /\ tasks[t].pc = "awaiting" /\ tasks[t].nreq = 1
    /\ tasks[t].started > tasks[u].started
    /\ now = 0
    /\ cache = EmptyDict

(***************************************************************************)
(* Score, level and factors against each other and across records           *)
(***************************************************************************)
\* C29: after calculate_risk, whatever the indicators, risk_score = 0,
\* risk_level = safe and risk_factors = [] hold together or not at all:
\* a rule that holds adds at least one point and one factor, and a record on
\* which no rule holds gets neither.
C29_ZeroSafeEmpty ==
  secOut # None =>
    /\ (secOut[1].risk_score = 0) <=> (secOut[1].risk_level = "safe")
    /\ (secOut[1].risk_score = 0) <=> (secOut[1].risk_factors = <<>>)
    /\ (secOut[1].risk_score = 0) <=>
         (FlagWeights(secIn) = 0 /\ secIn.buy_tax <= 100 /\ secIn.sell_tax <= 100)

\* a tax exactly on the threshold and another below it: no rule holds
C29_Witness ==
  /\ secOut # None
  /\ secIn.buy_tax = 100 /\ secIn.sell_tax = 50
  /\ secOut[1].risk_score = 0
  /\ secOut[1].risk_level = "safe"
  /\ secOut[1].risk_factors = <<>>

Severity(level) ==
  CASE level = "safe" -> 0
    [] level = "low" -> 1
    [] level = "medium" -> 2
    [] level = "high" -> 3
    [] level = "critical" -> 4

FlagNames ==
  {"is_honeypot", "is_mintable", "can_take_back_ownership", "owner_change_balance",
   "hidden_owner", "is_blacklisted", "transfer_pausable", "is_proxy"}

\* the records that differ from s in one indicator, a risk condition more
OneMoreCondition(s) ==
  {[s EXCEPT ![f] = TRUE] : f \in {g \in FlagNames : ~s[g]}}
  \cup (IF s.is_open_source THEN {[s EXCEPT !.is_open_source = FALSE]} ELSE {})
  \cup {[s EXCEPT !.buy_tax = b] : b \in {x \in TaxValues : x > s.buy_tax}}
  \cup {[s EXCEPT !.sell_tax = b] : b \in {x \in TaxValues : x > s.sell_tax}}

\* C30: a record that differs from the scored one only in one more risk
\* condition (a flag set, is_open_source cleared, a buy or a sell tax raised)
\* is scored at least as high and gets a level at least as severe, in the
\* order safe < low < medium < high < critical.
C30_Monotone ==
  secOut # None =>
    \A s2 \in OneMoreCondition(secIn) :
      LET r2 == check_token_security_result(s2)
      IN /\ r2.risk_score >= secOut[1].risk_score
         /\ Severity(r2.risk_level) >= Severity(secOut[1].risk_level)

\* a scored record below the clamp with a tax that can be raised past the
\* cap and flags that can still be set
C30_Witness ==
  /\ secOut # None
  /\ secIn.buy_tax = 200 /\ secIn.is_mintable /\ ~secIn.is_proxy /\ secIn.is_open_source
  /\ secOut[1].risk_score = 40
  /\ \E s2 \in OneMoreCondition(secIn) :
       /\ s2.buy_tax = 450
       /\ check_token_security_result(s2).risk_score = 50
       /\ check_token_security_result(s2).risk_level = "high"

====
